---- MODULE Spec2Model ----
(***************************************************************************)
(* Global shortcut subsystem of echo (src-tauri/src/features/shortcut):    *)
(* the toggle / push-to-talk dispatch shared by the Local backend          *)
(* (tauri-plugin-global-shortcut callbacks) and the Portal backend, and    *)
(* the Portal session manager task (XDG GlobalShortcuts portal).           *)
(*                                                                         *)
(* Text is modelled as a sequence of one-character strings, so that        *)
(* split, trim, lower-casing and prefix tests are computed as the source   *)
(* computes them.                                                          *)
(***************************************************************************)
EXTENDS Integers, Sequences, FiniteSets, TLC

\* ------------------------------------------------------------------------
\* Bounds of the model
\* ------------------------------------------------------------------------

\* Number of press / release events the backends deliver to the dispatch.
MaxEvents == 4

\* Number of signals the broker emits while Configure commands are in play.
MaxSignals == 2

\* Number of request_configure calls made by the UI layer.
MaxRequests == 2

\* Number of sessions the broker creates on one connection.
MaxSessions == 2

\* mpsc::channel::<WaylandCommand>(8)
\* number of change / suspend / resume commands issued on the Local backend
MaxLocalCalls == 3

ChannelCapacity == 8

\* ------------------------------------------------------------------------
\* Text helpers (str::split, str::trim, str::to_lowercase, ...)
\* ------------------------------------------------------------------------

UpperChars == <<"A", "B", "C", "D", "E", "F", "G", "H", "I", "J", "K", "L", "M",
                "N", "O", "P", "Q", "R", "S", "T", "U", "V", "W", "X", "Y", "Z">>

LowerChars == <<"a", "b", "c", "d", "e", "f", "g", "h", "i", "j", "k", "l", "m",
                "n", "o", "p", "q", "r", "s", "t", "u", "v", "w", "x", "y", "z">>

Digits == {"0", "1", "2", "3", "4", "5", "6", "7", "8", "9"}

Range(s) == {s[i] : i \in DOMAIN s}

\* two letters outside ASCII, each a single character: U+00C9 and U+00E9
UpperEAcute == "E-acute"

LowerEAcute == "e-acute"

\* char::to_lowercase on the ASCII letters and on U+00C9
LowerChar(c) ==
    IF \E i \in DOMAIN UpperChars : UpperChars[i] = c
    THEN LowerChars[CHOOSE i \in DOMAIN UpperChars : UpperChars[i] = c]
    ELSE IF c = UpperEAcute THEN LowerEAcute ELSE c

\* char::len_utf8
len_utf8(c) == IF c \in {UpperEAcute, LowerEAcute} THEN 2 ELSE 1

\* str::len: the length in bytes
RECURSIVE len(_)
len(s) == IF s = <<>> THEN 0 ELSE len_utf8(Head(s)) + len(Tail(s))

\* str::to_lowercase
to_lowercase(s) == [i \in DOMAIN s |-> LowerChar(s[i])]

\* char::is_alphanumeric
is_alphanumeric(c) ==
    c \in Range(UpperChars) \cup Range(LowerChars) \cup Digits
           \cup {UpperEAcute, LowerEAcute}

IsSpace(c) == c = " "

RECURSIVE trim_start(_)
trim_start(s) ==
    IF s # <<>> /\ IsSpace(Head(s)) THEN trim_start(Tail(s)) ELSE s

RECURSIVE trim_end(_)
trim_end(s) ==
    IF s # <<>> /\ IsSpace(s[Len(s)]) THEN trim_end(SubSeq(s, 1, Len(s) - 1)) ELSE s

\* str::trim
trim(s) == trim_end(trim_start(s))

\* str::starts_with
starts_with(s, p) == Len(s) >= Len(p) /\ SubSeq(s, 1, Len(p)) = p

\* str::split(ch): the pieces between the occurrences of ch, empty pieces kept
RECURSIVE split(_, _)
split(s, ch) ==
    IF ch \notin Range(s) THEN <<s>>
    ELSE LET i == CHOOSE k \in DOMAIN s :
                     s[k] = ch /\ \A j \in 1..(k - 1) : s[j] # ch
         IN  <<SubSeq(s, 1, i - 1)>> \o split(SubSeq(s, i + 1, Len(s)), ch)

\* str::split_whitespace: the non-empty pieces between whitespace
split_whitespace(s) ==
    SelectSeq(split(s, " "), LAMBDA piece : piece # <<>>)

\* [&str]::join(sep)
RECURSIVE join(_, _)
join(pieces, sep) ==
    IF pieces = <<>> THEN <<>>
    ELSE IF Len(pieces) = 1 THEN pieces[1]
    ELSE pieces[1] \o <<sep>> \o join(Tail(pieces), sep)

\* the text a sequence of String::push_str calls builds
RECURSIVE concat(_)
concat(pieces) ==
    IF pieces = <<>> THEN <<>> ELSE Head(pieces) \o concat(Tail(pieces))

\* str::rsplit_once(ch) when ch occurs in s: the text after the last ch
rsplit_once_after(s, ch) ==
    LET i == CHOOSE k \in DOMAIN s :
                 s[k] = ch /\ \A j \in (k + 1)..Len(s) : s[j] # ch
    IN  SubSeq(s, i + 1, Len(s))

\* ------------------------------------------------------------------------
\* Trigger grammar
\* ------------------------------------------------------------------------

\* the `modifiers` array of validate_shortcut_string / get_printable_key_from_binding
modifiers == {
    <<"c", "t", "r", "l">>,
    <<"c", "o", "n", "t", "r", "o", "l">>,
    <<"s", "h", "i", "f", "t">>,
    <<"a", "l", "t">>,
    <<"o", "p", "t", "i", "o", "n">>,
    <<"m", "e", "t", "a">>,
    <<"c", "o", "m", "m", "a", "n", "d">>,
    <<"c", "m", "d">>,
    <<"s", "u", "p", "e", "r">>,
    <<"w", "i", "n">>,
    <<"w", "i", "n", "d", "o", "w", "s">> }

\* a validation that accepts every trigger
validate_shortcut_string_lenient(raw) == TRUE

\* a validation that compares the tokens without trimming them
validate_shortcut_string_untrimmed(raw) ==
    LET parts == split(raw, "+")
    IN  \E i \in DOMAIN parts : to_lowercase(parts[i]) \notin modifiers

\* a validation that wants a modifier next to the key
validate_shortcut_string_needs_modifier(raw) ==
    LET parts == split(raw, "+")
    IN  /\ \E i \in DOMAIN parts : to_lowercase(trim(parts[i])) \notin modifiers
        /\ \E i \in DOMAIN parts : to_lowercase(trim(parts[i])) \in modifiers

\* validate_shortcut_string: TRUE for Ok(()), FALSE for Err
validate_shortcut_string(raw) ==
    LET parts == split(raw, "+")
    IN  \E i \in DOMAIN parts : to_lowercase(trim(parts[i])) \notin modifiers

\* an is_printable_key that leaves the space key out
is_printable_key_without_space(key) ==
    LET key_lower == to_lowercase(key)
    IN  IF len(key_lower) = 1 THEN is_alphanumeric(key_lower[1])
        ELSE starts_with(key_lower, <<"n", "u", "m">>)
             \/ starts_with(key_lower, <<"k", "p">>)

is_printable_key(key) ==
    LET key_lower == to_lowercase(key)
    IN  IF key_lower = <<"s", "p", "a", "c", "e">> THEN TRUE
        ELSE IF len(key_lower) = 1 THEN is_alphanumeric(key_lower[1])
        ELSE starts_with(key_lower, <<"n", "u", "m">>)
             \/ starts_with(key_lower, <<"k", "p">>)

\* TRUE when get_printable_key_from_binding returns Some(_)
get_printable_key_from_binding(binding) ==
    LET parts == split(binding, "+")
    IN  \E i \in DOMAIN parts :
            LET part == to_lowercase(trim(parts[i]))
            IN  part \notin modifiers /\ is_printable_key(part)

trigger_has_printable_key(trigger) ==
    LET words == split_whitespace(trigger)
        key   == IF ">" \in Range(trigger)
                 THEN trim(rsplit_once_after(trigger, ">"))
                 ELSE IF words # <<>> THEN words[Len(words)] ELSE <<>>
    IN  is_printable_key(key)

\* match arms of to_portal_trigger that leave "option" to the `_` arm
portal_modifier_without_option(lower) ==
    CASE lower \in {<<"c", "t", "r", "l">>, <<"c", "o", "n", "t", "r", "o", "l">>}
            -> <<"C", "o", "n", "t", "r", "o", "l">>
      [] lower = <<"a", "l", "t">>
            -> <<"A", "l", "t">>
      [] lower = <<"s", "h", "i", "f", "t">>
            -> <<"S", "h", "i", "f", "t">>
      [] lower \in {<<"m", "e", "t", "a">>, <<"c", "m", "d">>,
                    <<"c", "o", "m", "m", "a", "n", "d">>, <<"s", "u", "p", "e", "r">>,
                    <<"w", "i", "n">>, <<"w", "i", "n", "d", "o", "w", "s">>}
            -> <<"S", "u", "p", "e", "r">>
      [] OTHER -> <<>>

\* the match arms of to_portal_trigger: the portal's name of a modifier,
\* <<>> for the `_` arm
portal_modifier(lower) ==
    CASE lower \in {<<"c", "t", "r", "l">>, <<"c", "o", "n", "t", "r", "o", "l">>}
            -> <<"C", "o", "n", "t", "r", "o", "l">>
      [] lower \in {<<"a", "l", "t">>, <<"o", "p", "t", "i", "o", "n">>}
            -> <<"A", "l", "t">>
      [] lower = <<"s", "h", "i", "f", "t">>
            -> <<"S", "h", "i", "f", "t">>
      [] lower \in {<<"m", "e", "t", "a">>, <<"c", "m", "d">>,
                    <<"c", "o", "m", "m", "a", "n", "d">>, <<"s", "u", "p", "e", "r">>,
                    <<"w", "i", "n">>, <<"w", "i", "n", "d", "o", "w", "s">>}
            -> <<"S", "u", "p", "e", "r">>
      [] OTHER -> <<>>

\* to_portal_trigger
to_portal_trigger(binding) ==
    LET pieces    == split(binding, "+")
        parts     == [i \in DOMAIN pieces |-> trim(pieces[i])]
        converted == [i \in DOMAIN parts |->
                        IF portal_modifier(to_lowercase(parts[i])) # <<>>
                        THEN portal_modifier(to_lowercase(parts[i]))
                        ELSE parts[i]]
    IN  join(converted, "+")

\* match arms of to_gtk_accelerator that leave "option" to the key arm
gtk_modifier_without_option(lower) ==
    CASE lower \in {<<"c", "t", "r", "l">>, <<"c", "o", "n", "t", "r", "o", "l">>}
            -> <<"<", "C", "o", "n", "t", "r", "o", "l", ">">>
      [] lower = <<"a", "l", "t">>
            -> <<"<", "A", "l", "t", ">">>
      [] lower = <<"s", "h", "i", "f", "t">>
            -> <<"<", "S", "h", "i", "f", "t", ">">>
      [] lower \in {<<"m", "e", "t", "a">>, <<"c", "m", "d">>,
                    <<"c", "o", "m", "m", "a", "n", "d">>, <<"s", "u", "p", "e", "r">>,
                    <<"w", "i", "n">>, <<"w", "i", "n", "d", "o", "w", "s">>}
            -> <<"<", "S", "u", "p", "e", "r", ">">>
      [] OTHER -> <<>>

\* the match arms of to_gtk_accelerator: the text pushed for a modifier,
\* <<>> for the `key` arm
gtk_modifier(lower) ==
    CASE lower \in {<<"c", "t", "r", "l">>, <<"c", "o", "n", "t", "r", "o", "l">>}
            -> <<"<", "C", "o", "n", "t", "r", "o", "l", ">">>
      [] lower \in {<<"a", "l", "t">>, <<"o", "p", "t", "i", "o", "n">>}
            -> <<"<", "A", "l", "t", ">">>
      [] lower = <<"s", "h", "i", "f", "t">>
            -> <<"<", "S", "h", "i", "f", "t", ">">>
      [] lower \in {<<"m", "e", "t", "a">>, <<"c", "m", "d">>,
                    <<"c", "o", "m", "m", "a", "n", "d">>, <<"s", "u", "p", "e", "r">>,
                    <<"w", "i", "n">>, <<"w", "i", "n", "d", "o", "w", "s">>}
            -> <<"<", "S", "u", "p", "e", "r", ">">>
      [] OTHER -> <<>>

\* to_gtk_accelerator: the key arm pushes the lower-cased text it matched
to_gtk_accelerator(binding) ==
    LET pieces == split(binding, "+")
        parts  == [i \in DOMAIN pieces |-> trim(pieces[i])]
        pushed == [i \in DOMAIN parts |->
                     IF gtk_modifier(to_lowercase(parts[i])) # <<>>
                     THEN gtk_modifier(to_lowercase(parts[i]))
                     ELSE to_lowercase(parts[i])]
    IN  concat(pushed)

\* ------------------------------------------------------------------------
\* Collaborators: Action Registry, Binding Store, broker
\* ------------------------------------------------------------------------

\* crate::actions::ACTION_MAP: the ids that have an action
ACTION_MAP == {"dictate", "translate"}

\* ids the backends may name in an event: the ids with an action and a stale one
ShortcutIds == ACTION_MAP \cup {"stale"}

\* settings.bindings as first created: id -> current_binding
DefaultBindings ==
    [id \in ShortcutIds |->
        CASE id = "dictate"   -> <<"c", "t", "r", "l", "+", "s", "p", "a", "c", "e">>
          [] id = "translate" -> <<"a", "l", "t", "+", "f", "1">>
          [] OTHER            -> <<"c", "t", "r", "l", "+", "k">>]

\* the triggers the UI asks for in change_binding: a valid one and a
\* modifier-only one
RequestedTriggers == {
    <<"c", "t", "r", "l", "+", "s", "h", "i", "f", "t", "+", "r">>,
    <<"s", "h", "i", "f", "t", "+", "a", "l", "t">> }

\* the bindings the UI edits
EditedIds == {"translate"}

\* the triggers the UI asks for on the Local backend: the accelerator of
\* dictate's default in another spelling, a free one, one that names two keys
\* and a modifier-only one
LocalTriggers == {
    <<"C", "o", "n", "t", "r", "o", "l", "+", "S", "p", "a", "c", "e">>,
    <<"c", "t", "r", "l", "+", "s", "h", "i", "f", "t", "+", "r">>,
    <<"a", "+", "b">>,
    <<"s", "h", "i", "f", "t", "+", "a", "l", "t">> }

\* the bindings the UI edits on the Local backend
LocalEditedIds == {"translate", "stale"}

\* the arguments of the change_binding calls followed on both backends: an id
\* of the store and one that is not in it; a modifier-only trigger, a key
\* alone and a modifier with a key
ChangedIds == {"translate", "missing"}

ChangeTriggers == {
    <<"s", "h", "i", "f", "t", "+", "a", "l", "t">>,
    <<"s", "p", "a", "c", "e">>,
    <<"c", "t", "r", "l", "+", "s", "h", "i", "f", "t", "+", "r">> }

\* a binding store none of whose ids has an action
UnboundStore == [id \in {"stale"} |-> DefaultBindings[id]]

\* the binding stores load_or_create_app_settings can return: the defaults,
\* and a store whose translate binding holds a modifier-only trigger
StoredBindings ==
    { DefaultBindings,
      [DefaultBindings EXCEPT !["translate"] =
          <<"s", "h", "i", "f", "t", "+", "a", "l", "t">>] }

\* ------------------------------------------------------------------------
\* State
\* ------------------------------------------------------------------------

VARIABLES
    session_type,    \* XDG_SESSION_TYPE as is_wayland_session reads it
    push_to_talk,    \* settings.push_to_talk, the single global mode flag
    bindings,        \* settings.bindings: id -> current_binding
    active_toggles,  \* ManagedToggleState.active_toggles: id -> bool, lazily filled
    registered,      \* Local backend: the installed callbacks, one per accelerator
    init_todo,       \* init_x11_shortcuts: the bindings its loop has still to visit
    last_local,      \* the last change / suspend / resume command on the Local backend
    wl_state,        \* ManagedWaylandState: triggers, ready, last_error
    cmd_sender,      \* ManagedWaylandCommandSender: the stored Sender, or NoMgr
    mgr,             \* the manager tasks, named by the caller that spawned them
    caller,          \* the startup initialisation (0) and the request_configure calls
    reply,           \* the values sent on each command's oneshot response channel
    broker,          \* the shortcut broker: portal version, sessions closed
    calls,           \* the calls made to the actions: how many, the last, the last per id
    events,          \* the press / release events dispatched: how many, the last, ...
    backspaces,      \* the corrective keystroke threads: started, still running, failed
    emitted,         \* what app.emit published: how many, the last, the statuses
    signals,         \* number of signals the broker has emitted
    last_query,      \* the last call of a read-only function: name, argument, result
    guards           \* the two mutexes: their holders, and where each holder is

vars == <<session_type, push_to_talk, bindings, active_toggles, registered,
          init_todo, last_local, wl_state, cmd_sender, mgr, caller, reply, broker, calls,
          events, backspaces, emitted, signals, last_query, guards>>

\* the variables of the dispatch state machine
dispatch_vars == <<active_toggles, calls, backspaces>>

\* the variables only the Local backend touches
local_vars == <<registered, init_todo, last_local>>

\* everything the portal manager and its callers leave alone
outside_portal == <<session_type, last_query, guards, push_to_talk, bindings, active_toggles,
                    calls, backspaces, registered, init_todo, last_local, events>>

Requesters == 1..MaxRequests

\* caller 0 is the startup initialisation (init_shortcuts)
Callers == 0..MaxRequests

NoMgr == -1

NoCmd == -1

\* ------------------------------------------------------------------------
\* Toggle / push-to-talk dispatch
\* ------------------------------------------------------------------------

\* states.active_toggles.entry(id).or_insert(false), read
toggle_entry(id) ==
    IF id \in DOMAIN active_toggles THEN active_toggles[id] ELSE FALSE

\* a toggle whose flag only ever holds the inserted default
toggle_set_default(id, v) ==
    [x \in (DOMAIN active_toggles) \cup {id} |->
        IF x = id THEN FALSE ELSE active_toggles[x]]

\* *is_currently_active = v, after entry(id).or_insert(false)
toggle_set(id, v) ==
    [x \in (DOMAIN active_toggles) \cup {id} |->
        IF x = id THEN v ELSE active_toggles[x]]

Call(op, id) == [op |-> op, id |-> id]

\* action.start(..) / action.stop(..) is called
dispatch(op, id) ==
    calls' = [n |-> calls.n + 1, last |-> Call(op, id),
              by_id |-> [calls.by_id EXCEPT ![id] = op]]

\* a press or release reaches the dispatch: the record of it
delivered(path, kind, id, installed_ptt) ==
    events' = [n |-> events.n + 1,
               last |-> [path |-> path, kind |-> kind, id |-> id, ptt |-> push_to_talk,
                         installed_ptt |-> installed_ptt],
               presses |-> IF kind = "Pressed" /\ id \in ACTION_MAP
                           THEN [events.presses EXCEPT ![id] = @ + 1]
                           ELSE events.presses,
               toggle_only |-> events.toggle_only /\ ~push_to_talk]

\* a callback that captured the mode flag when it was installed
local_mode_captured(reg) == reg.installed_ptt

\* settings.push_to_talk as the Local callback reads it: get_settings(ah) on
\* every event
local_mode(reg) == push_to_talk

\* the closure register_shortcut installs with on_shortcut
on_shortcut(reg, state) ==
    IF reg.id \in ACTION_MAP
    THEN IF local_mode(reg)
         THEN /\ dispatch(IF state = "Pressed" THEN "start" ELSE "stop", reg.id)
              /\ UNCHANGED active_toggles
         ELSE IF state = "Pressed"
         THEN IF toggle_entry(reg.id)
              THEN /\ dispatch("stop", reg.id)
                   /\ active_toggles' = toggle_set(reg.id, FALSE)
              ELSE /\ dispatch("start", reg.id)
                   /\ active_toggles' = toggle_set(reg.id, TRUE)
         ELSE UNCHANGED <<calls, active_toggles>>
    ELSE UNCHANGED <<calls, active_toggles>>

\* a workaround decided on the trigger the application requested
needs_backspace_workaround_requested(shortcut_id) ==
    /\ shortcut_id \in DOMAIN bindings
    /\ get_printable_key_from_binding(bindings[shortcut_id])

needs_backspace_workaround(shortcut_id) ==
    IF shortcut_id \in DOMAIN wl_state.triggers
    THEN trigger_has_printable_key(wl_state.triggers[shortcut_id])
    ELSE IF shortcut_id \in DOMAIN bindings
    THEN get_printable_key_from_binding(bindings[shortcut_id])
    ELSE FALSE

\* handle_shortcut_activated after the action lookup and the workaround:
\* the mode decision and the toggle
activated_dispatch(shortcut_id) ==
    IF push_to_talk
    THEN /\ dispatch("start", shortcut_id)
         /\ UNCHANGED active_toggles
    ELSE IF toggle_entry(shortcut_id)
    THEN /\ dispatch("stop", shortcut_id)
         /\ active_toggles' = toggle_set(shortcut_id, FALSE)
    ELSE /\ dispatch("start", shortcut_id)
         /\ active_toggles' = toggle_set(shortcut_id, TRUE)

\* std::thread::spawn(send_backspace_workaround) when the workaround is needed
start_backspace_if_needed(shortcut_id) ==
    backspaces' = IF needs_backspace_workaround(shortcut_id)
                  THEN [backspaces EXCEPT !.started = @ + 1, !.running = @ + 1]
                  ELSE backspaces

\* an activation handler that starts the workaround before the action lookup
handle_shortcut_activated_late_lookup(shortcut_id) ==
    /\ start_backspace_if_needed(shortcut_id)
    /\ IF shortcut_id \notin ACTION_MAP
       THEN UNCHANGED <<calls, active_toggles>>
       ELSE activated_dispatch(shortcut_id)

handle_shortcut_activated(shortcut_id) ==
    IF shortcut_id \notin ACTION_MAP
    THEN UNCHANGED <<calls, active_toggles, backspaces>>
    ELSE /\ start_backspace_if_needed(shortcut_id)
         /\ activated_dispatch(shortcut_id)

\* a deactivation handler that stops only an id whose toggle is active
handle_shortcut_deactivated_if_active(shortcut_id) ==
    IF shortcut_id \in ACTION_MAP /\ push_to_talk /\ toggle_entry(shortcut_id)
    THEN /\ dispatch("stop", shortcut_id)
         /\ UNCHANGED <<active_toggles, backspaces>>
    ELSE UNCHANGED <<calls, active_toggles, backspaces>>

handle_shortcut_deactivated(shortcut_id) ==
    IF shortcut_id \notin ACTION_MAP
    THEN UNCHANGED <<calls, active_toggles, backspaces>>
    ELSE IF push_to_talk
    THEN /\ dispatch("stop", shortcut_id)
         /\ UNCHANGED <<active_toggles, backspaces>>
    ELSE UNCHANGED <<calls, active_toggles, backspaces>>

\* send_backspace_workaround: a started thread has slept, run wtype and ended;
\* a wtype that failed or could not be executed is only logged
SendBackspace(ok) ==
    /\ backspaces.running > 0
    /\ backspaces' = [backspaces EXCEPT !.running = @ - 1,
                                        !.failed = IF ok THEN @ ELSE @ + 1]
    /\ UNCHANGED <<session_type, last_query, guards, push_to_talk, bindings, active_toggles, calls,
                   local_vars, events, wl_state, cmd_sender, mgr, caller, reply,
                   broker, emitted, signals>>

\* the settings collaborator writes the mode flag (a settings command of the UI)
SetPushToTalk ==
    /\ push_to_talk' = ~push_to_talk
    /\ UNCHANGED <<session_type, last_query, guards, bindings, dispatch_vars, local_vars, events,
                   wl_state, cmd_sender, mgr, caller, reply, broker, emitted, signals>>

\* ------------------------------------------------------------------------
\* Local backend (tauri-plugin-global-shortcut)
\* ------------------------------------------------------------------------

\* the modifier a lower-cased token names, as the match arms of
\* to_portal_trigger and to_gtk_accelerator class it; "key" for any other token
modifier_class(tok) ==
    CASE tok \in {<<"c", "t", "r", "l">>, <<"c", "o", "n", "t", "r", "o", "l">>}
            -> "Control"
      [] tok \in {<<"a", "l", "t">>, <<"o", "p", "t", "i", "o", "n">>}
            -> "Alt"
      [] tok = <<"s", "h", "i", "f", "t">>
            -> "Shift"
      [] tok \in {<<"m", "e", "t", "a">>, <<"c", "m", "d">>,
                  <<"c", "o", "m", "m", "a", "n", "d">>, <<"s", "u", "p", "e", "r">>,
                  <<"w", "i", "n">>, <<"w", "i", "n", "d", "o", "w", "s">>}
            -> "Super"
      [] OTHER -> "key"

shortcut_tokens(raw) ==
    LET parts == split(raw, "+")
    IN  [i \in DOMAIN parts |-> to_lowercase(trim(parts[i]))]

\* binding.current_binding.parse::<Shortcut>() succeeds: modifiers, then one key
parse_ok(raw) ==
    LET toks == shortcut_tokens(raw)
    IN  /\ toks[Len(toks)] # <<>>
        /\ modifier_class(toks[Len(toks)]) = "key"
        /\ \A i \in 1..(Len(toks) - 1) : modifier_class(toks[i]) # "key"

\* the accelerator a parsed trigger stands for
parse_shortcut(raw) ==
    LET toks == shortcut_tokens(raw)
    IN  [mods |-> {modifier_class(toks[i]) : i \in 1..(Len(toks) - 1)},
         key  |-> toks[Len(toks)]]

\* app.global_shortcut().is_registered(shortcut)
is_registered(regs, acc) == \E reg \in regs : reg.acc = acc

\* a register_shortcut without the duplicate test: a second callback is
\* installed for an accelerator already claimed
register_outcome_shadowing(regs, id, raw) ==
    IF id \notin ACTION_MAP THEN "no_action"
    ELSE IF ~validate_shortcut_string(raw) THEN "invalid"
    ELSE IF ~parse_ok(raw) THEN "parse_error"
    ELSE "ok"

\* a register_shortcut without the ACTION_MAP test
register_outcome_any_id(regs, id, raw) ==
    IF ~validate_shortcut_string(raw) THEN "invalid"
    ELSE IF ~parse_ok(raw) THEN "parse_error"
    ELSE IF is_registered(regs, parse_shortcut(raw)) THEN "duplicate"
    ELSE "ok"

\* register_shortcut: its outcome
register_outcome(regs, id, raw) ==
    IF id \notin ACTION_MAP THEN "no_action"
    ELSE IF ~validate_shortcut_string(raw) THEN "invalid"
    ELSE IF ~parse_ok(raw) THEN "parse_error"
    ELSE IF is_registered(regs, parse_shortcut(raw)) THEN "duplicate"
    ELSE "ok"

\* register_shortcut: the number of on_shortcut calls it makes on the plugin
on_shortcut_calls(regs, id, raw) ==
    IF register_outcome(regs, id, raw) = "ok" THEN 1 ELSE 0

\* register_shortcut: the callbacks installed after the call
register_shortcut(regs, id, raw) ==
    IF register_outcome(regs, id, raw) = "ok"
    THEN regs \cup {[acc |-> parse_shortcut(raw), id |-> id,
                     installed_ptt |-> push_to_talk]}
    ELSE regs

\* unregister_shortcut: its outcome
unregister_outcome(regs, raw) ==
    IF ~parse_ok(raw) THEN "parse_error"
    ELSE IF ~is_registered(regs, parse_shortcut(raw)) THEN "not_registered"
    ELSE "ok"

\* an unregister_shortcut that leaves every callback installed
unregister_shortcut_kept(regs, raw) == regs

\* unregister_shortcut: the callbacks installed after the call; the plugin
\* looks the registration up by accelerator
unregister_shortcut(regs, raw) ==
    IF unregister_outcome(regs, raw) = "ok"
    THEN {reg \in regs : reg.acc # parse_shortcut(raw)}
    ELSE regs

\* a command of the UI on the Local backend and what it did: the outcomes of
\* the unregister_shortcut and register_shortcut calls it made ("none" when it
\* made none), the on_shortcut calls made, the value returned, and the
\* callbacks that were installed when it was called
LocalCall(n, op, id, trigger, un, reg, calls_made, result) ==
    [n |-> n, op |-> op, id |-> id, trigger |-> trigger, unregister |-> un,
     register |-> reg, on_shortcut_calls |-> calls_made, result |-> result,
     before |-> registered]

\* init_shortcuts on a session that is not Wayland: init_x11_shortcuts starts
\* its loop over settings.bindings
InitX11Start ==
    /\ caller[0].pc = "idle"
    /\ session_type # "wayland"
    /\ init_todo' = DOMAIN bindings
    /\ caller' = [caller EXCEPT ![0].pc = "x11"]
    /\ UNCHANGED <<session_type, last_query, guards, push_to_talk, bindings, dispatch_vars, registered,
                   last_local, wl_state, cmd_sender, mgr, reply, broker, emitted,
                   signals, events>>

\* one iteration of the loop of init_x11_shortcuts
InitX11Step(id) ==
    /\ caller[0].pc = "x11"
    /\ id \in init_todo
    /\ init_todo' = init_todo \ {id}
    /\ registered' = IF id \in ACTION_MAP
                     THEN register_shortcut(registered, id, bindings[id])
                     ELSE registered
    /\ UNCHANGED last_local
    /\ caller' = [caller EXCEPT ![0].pc = IF init_todo' = {} THEN "done" ELSE "x11",
                                ![0].result = IF init_todo' = {} THEN "ok" ELSE @]
    /\ UNCHANGED <<session_type, last_query, guards, push_to_talk, bindings, dispatch_vars, events,
                   wl_state, cmd_sender, mgr, reply, broker, emitted, signals>>

\* the OS delivers Pressed / Released for a registered accelerator
LocalEvent(reg, state) ==
    /\ reg \in registered
    /\ events.n < MaxEvents
    /\ on_shortcut(reg, state)
    /\ delivered("local", state, reg.id, reg.installed_ptt)
    /\ UNCHANGED <<session_type, last_query, guards, push_to_talk, bindings, backspaces, local_vars,
                   wl_state, cmd_sender, mgr, caller, reply, broker, emitted, signals>>

\* change_binding on a session that is not Wayland: the store is written,
\* then do_change_binding_x11 unregisters the old trigger (an error is only
\* logged) and registers the new one
ChangeBindingX11(id, trigger) ==
    /\ session_type # "wayland"
    /\ caller[0].pc = "done"
    /\ last_local.n < MaxLocalCalls
    /\ IF id \notin DOMAIN bindings
       THEN /\ last_local' = LocalCall(last_local.n + 1, "change", id, trigger,
                                       "none", "none", 0, "not_found")
            /\ UNCHANGED <<bindings, registered>>
       ELSE IF ~validate_shortcut_string(trigger)
       THEN /\ last_local' = LocalCall(last_local.n + 1, "change", id, trigger,
                                       "none", "none", 0, "invalid")
            /\ UNCHANGED <<bindings, registered>>
       ELSE LET after == unregister_shortcut(registered, bindings[id])
                reg == register_outcome(after, id, trigger)
            IN  /\ bindings' = [bindings EXCEPT ![id] = trigger]
                /\ registered' = register_shortcut(after, id, trigger)
                /\ last_local' = LocalCall(last_local.n + 1, "change", id, trigger,
                                           unregister_outcome(registered, bindings[id]),
                                           reg, on_shortcut_calls(after, id, trigger),
                                           IF reg = "ok" THEN "ok" ELSE "err")
    /\ UNCHANGED <<session_type, last_query, guards, push_to_talk, dispatch_vars, init_todo, events,
                   wl_state, cmd_sender, mgr, caller, reply, broker, emitted, signals>>

\* suspend_binding: Ok(()) at once on a Wayland session, unregister_shortcut of
\* the stored trigger otherwise
SuspendBinding(id) ==
    /\ session_type # "wayland" => caller[0].pc = "done"
    /\ last_local.n < MaxLocalCalls
    /\ IF session_type = "wayland"
       THEN /\ last_local' = LocalCall(last_local.n + 1, "suspend", id, <<>>,
                                       "none", "none", 0, "ok")
            /\ UNCHANGED registered
       ELSE IF id \in DOMAIN bindings
       THEN LET un == unregister_outcome(registered, bindings[id])
            IN  /\ registered' = unregister_shortcut(registered, bindings[id])
                /\ last_local' = LocalCall(last_local.n + 1, "suspend", id, bindings[id],
                                           un, "none", 0,
                                           IF un = "ok" THEN "ok" ELSE "err")
       ELSE /\ last_local' = LocalCall(last_local.n + 1, "suspend", id, <<>>,
                                       "none", "none", 0, "ok")
            /\ UNCHANGED registered
    /\ UNCHANGED <<session_type, last_query, guards, push_to_talk, bindings, dispatch_vars, init_todo,
                   events, wl_state, cmd_sender, mgr, caller, reply, broker, emitted,
                   signals>>

\* resume_binding: Ok(()) at once on a Wayland session, register_shortcut of
\* the stored trigger otherwise
ResumeBinding(id) ==
    /\ session_type # "wayland" => caller[0].pc = "done"
    /\ last_local.n < MaxLocalCalls
    /\ IF session_type = "wayland"
       THEN /\ last_local' = LocalCall(last_local.n + 1, "resume", id, <<>>,
                                       "none", "none", 0, "ok")
            /\ UNCHANGED registered
       ELSE IF id \in DOMAIN bindings
       THEN LET reg == register_outcome(registered, id, bindings[id])
            IN  /\ registered' = register_shortcut(registered, id, bindings[id])
                /\ last_local' = LocalCall(last_local.n + 1, "resume", id, bindings[id],
                                           "none", reg,
                                           on_shortcut_calls(registered, id, bindings[id]),
                                           IF reg = "ok" THEN "ok" ELSE "err")
       ELSE /\ last_local' = LocalCall(last_local.n + 1, "resume", id, <<>>,
                                       "none", "none", 0, "ok")
            /\ UNCHANGED registered
    /\ UNCHANGED <<session_type, last_query, guards, push_to_talk, bindings, dispatch_vars, init_todo,
                   events, wl_state, cmd_sender, mgr, caller, reply, broker, emitted,
                   signals>>

\* ------------------------------------------------------------------------
\* Portal session manager: the task
\* ------------------------------------------------------------------------

\* the manager task has returned: its receiver and its init sender are dropped
Terminated == {"failed", "exited"}

\* the manager has its three event streams (it is past receive_*().await)
Subscribed(m) == mgr[m].pc \in {"loop", "configure", "fb_close", "fb_create",
                                "bind", "bind_call", "bind_wait"}
                 /\ mgr[m].init # <<>>

\* HashMap::insert of every entry of g into f
insert_all(f, g) ==
    [x \in (DOMAIN f) \cup (DOMAIN g) |-> IF x \in DOMAIN g THEN g[x] ELSE f[x]]

\* settings.bindings filtered by ACTION_MAP.contains_key(&b.id): the ids
bindable_unfiltered == DOMAIN bindings

bindable == {id \in DOMAIN bindings : id \in ACTION_MAP}

\* app.emit("wayland-shortcut-status", st)
Status(st) == [event |-> "wayland-shortcut-status", status |-> st, infos |-> {}]

\* a WaylandShortcutInfo list whose printable flag is never set
shortcut_infos_unflagged(shortcuts) ==
    {[id |-> id, trigger |-> shortcuts[id], has_printable_key |-> FALSE] :
        id \in DOMAIN shortcuts}

\* the WaylandShortcutInfo list built from (id, trigger) pairs
shortcut_infos(shortcuts) ==
    {[id |-> id, trigger |-> shortcuts[id],
      has_printable_key |-> trigger_has_printable_key(shortcuts[id])] :
        id \in DOMAIN shortcuts}

\* app.emit("wayland-shortcuts-ready" | "wayland-shortcuts-changed", &shortcut_infos)
Snapshot(ev, shortcuts) ==
    [event |-> ev, status |-> "", infos |-> shortcut_infos(shortcuts)]

\* the emissions of one step
emit(es) == emitted' = [n |-> emitted.n + Len(es), last |-> es]

\* the manager task returns: cmd_rx is dropped, and the commands queued in it
returned(me) == [me EXCEPT !.pc = "failed", !.inbox = <<>>, !.asked = {},
                           !.dconf = "none", !.bind_ctx = "none"]

\* a startup path that returns without sending on init_tx
startup_failed_silent(me) == returned(me)

\* let _ = init_tx.send(Err(msg)); return Err(msg)
startup_failed(me) == returned([me EXCEPT !.init = Append(@, "err")])

\* Ok(_) => let _ = init_tx.send(Ok(()))
startup_bound(me) ==
    [me EXCEPT !.pc = "subscribe", !.init = Append(@, "ok"), !.bound = me.session,
               !.asked = {}, !.dconf = "none", !.bind_ctx = "none"]

\* a fallback that never installs the new session
fallback_session_kept(me, ok) == me.session

\* a fallback that installs the new session whatever the bind returned
fallback_session_swapped(me, ok) == me.new_session

\* if result.is_ok() { *session = new_session; }
fallback_session(me, ok) == IF ok THEN me.new_session ELSE me.session

\* the manager is back in its select loop, the command in hand answered
answered(me) ==
    [me EXCEPT !.pc = "loop", !.cur = NoCmd, !.cfg_result = "none", !.new_session = 0,
               !.asked = {}, !.dconf = "none", !.bind_ctx = "none",
               !.ops = [closes |-> 0, creates |-> 0, binds |-> 0]]

\* respond.send(v) for the command in hand
respond(me, v) == reply' = [reply EXCEPT ![me.cur].values = Append(@, v)]

\* GlobalShortcuts::new().await returns
Connect(m, ok) ==
    /\ mgr[m].pc = "connect"
    /\ mgr' = [mgr EXCEPT ![m] = IF ok THEN [@ EXCEPT !.pc = "create_session"]
                                  ELSE startup_failed(@)]
    /\ UNCHANGED <<outside_portal, wl_state, cmd_sender, caller, reply, broker,
                   emitted, signals>>

\* portal.create_session().await returns, at startup
CreateSession(m, ok) ==
    /\ mgr[m].pc = "create_session"
    /\ mgr' = [mgr EXCEPT ![m] =
                 IF ok THEN [@ EXCEPT !.pc = "bind", !.bind_ctx = "init",
                                      !.session = mgr[m].created + 1,
                                      !.created = @ + 1]
                 ELSE startup_failed(@)]
    /\ UNCHANGED <<outside_portal, wl_state, cmd_sender, caller, reply, broker,
                   emitted, signals>>

\* the ways request.response() inside the blocking task can fail: the user
\* declined or cancelled the dialog, the response carried another error, the
\* blocking task itself failed (JoinError)
ResponseFailures == {"declined", "response_error", "join_error"}

\* a do_bind_shortcuts whose errors all carry the message of a failed response
bind_error_message_uniform(cause) ==
    "Failed to get bind response (dialog cancelled or error)"

\* the message the map_err closures of do_bind_shortcuts build; the text of
\* the underlying error, which they append, is left out
bind_error_message(cause) ==
    CASE cause = "call_error" -> "Failed to bind shortcuts"
      [] cause = "join_error" -> "spawn_blocking"
      [] OTHER -> "Failed to get bind response (dialog cancelled or error)"

\* the status the map_err closures emit on wayland-shortcut-status
bind_error_status(cause) ==
    IF cause = "join_error" THEN "error" ELSE "authorization_failed"

\* what do_bind_shortcuts returns, with what made it return
bind_result(cause) ==
    [cause |-> cause,
     value |-> IF cause \in {"nothing_to_bind", "granted"} THEN "ok"
               ELSE bind_error_message(cause)]

\* do_bind_shortcuts returns to its caller: the startup sequence or
\* do_rebind_fallback and the Configure arm
bind_return(m, cause) ==
    LET me == [mgr[m] EXCEPT !.bind_result = bind_result(cause)]
        ok == me.bind_result.value = "ok"
    IN  IF me.bind_ctx = "init"
        THEN /\ mgr' = [mgr EXCEPT ![m] = IF ok THEN startup_bound(me)
                                          ELSE startup_failed(me)]
             /\ UNCHANGED reply
        ELSE /\ mgr' = [mgr EXCEPT ![m] =
                          answered([me EXCEPT !.session = fallback_session(me, ok),
                                              !.bound = IF ok THEN me.new_session ELSE @])]
             /\ respond(me, IF ok THEN "ok" ELSE "err")

\* a do_bind_shortcuts that returns when update_dconf_shortcuts fails
after_dconf_propagating(dconf_ok) == IF dconf_ok THEN "bind_call" ELSE "failed"

\* if let Err(e) = update_dconf_shortcuts(app) { warn!(..) }: where
\* do_bind_shortcuts goes on after the step
after_dconf(dconf_ok) == "bind_call"

\* do_bind_shortcuts up to portal.bind_shortcuts(..): update_dconf_shortcuts,
\* the bindings filtered by ACTION_MAP, the request issued
BindShortcuts(m, dconf_ok) ==
    /\ mgr[m].pc = "bind"
    /\ IF bindable = {}
       THEN /\ bind_return(m, "nothing_to_bind")
            /\ UNCHANGED <<wl_state, emitted>>
       ELSE /\ mgr' = [mgr EXCEPT ![m].pc = after_dconf(dconf_ok),
                                  ![m].dconf = IF dconf_ok THEN "ok" ELSE "err",
                                  ![m].asked = bindable,
                                  ![m].ops.binds = @ + 1]
            /\ UNCHANGED <<wl_state, emitted, reply>>
    /\ UNCHANGED <<outside_portal, cmd_sender, caller, broker, signals>>

\* portal.bind_shortcuts(..).await returns the request, or an error
BindRequested(m, ok) ==
    /\ mgr[m].pc = "bind_call"
    /\ IF ok
       THEN /\ mgr' = [mgr EXCEPT ![m].pc = "bind_wait"]
            /\ emit(<<Status("waiting_for_authorization")>>)
            /\ UNCHANGED reply
       ELSE /\ bind_return(m, "call_error")
            /\ UNCHANGED emitted
    /\ UNCHANGED <<outside_portal, wl_state, cmd_sender, caller, broker, signals>>

\* request.response() returns the bound shortcuts: triggers stored, ready set,
\* the snapshot and the status published
BindGranted(m, grant) ==
    /\ mgr[m].pc = "bind_wait"
    /\ DOMAIN grant = mgr[m].asked
    /\ wl_state' = [triggers |-> insert_all(wl_state.triggers, grant),
                    ready |-> TRUE, last_error |-> "none"]
    /\ emit(<<Snapshot("wayland-shortcuts-ready", grant), Status("ready")>>)
    /\ bind_return(m, "granted")
    /\ UNCHANGED <<outside_portal, cmd_sender, caller, broker, signals>>

\* request.response() fails, or the blocking task does
BindDenied(m, cause) ==
    /\ mgr[m].pc = "bind_wait"
    /\ emit(<<Status(bind_error_status(cause))>>)
    /\ bind_return(m, cause)
    /\ UNCHANGED <<outside_portal, wl_state, cmd_sender, caller, broker, signals>>

\* receive_activated / receive_deactivated / receive_shortcuts_changed
Subscribe(m, ok) ==
    /\ mgr[m].pc = "subscribe"
    /\ mgr' = [mgr EXCEPT ![m] = IF ok THEN [@ EXCEPT !.pc = "loop"] ELSE returned(@)]
    /\ UNCHANGED <<outside_portal, wl_state, cmd_sender, caller, reply, broker,
                   emitted, signals>>

\* ------------------------------------------------------------------------
\* Portal session manager: the select loop
\* ------------------------------------------------------------------------

\* what the broker grants for a bind: one of two sets of trigger descriptions
BrokerGrants ==
    LET a == <<"P", "r", "e", "s", "s", " ", "<", "C", "o", "n", "t", "r", "o", "l", ">",
               "s", "p", "a", "c", "e">>
        b == <<"P", "r", "e", "s", "s", " ", "<", "A", "l", "t", ">", "F", "1">>
    IN  { [id \in ACTION_MAP |-> IF id = "dictate" THEN a ELSE b],
          [id \in ACTION_MAP |-> IF id = "dictate" THEN b ELSE a] }

\* a bind that caches the triggers the application asked for
granted_as_requested(g, ids) == [id \in ids |-> bindings[id]]

\* the grant for the ids asked
granted(g, ids) == [id \in ids |-> g[id]]

\* the shortcut lists a ShortcutsChanged signal carries
ChangedPayloads ==
    { [id \in {"translate"} |-> <<"P", "r", "e", "s", "s", " ", "<", "S", "u", "p", "e", "r", ">", "t">>],
      [id \in {"stale"} |-> <<"P", "r", "e", "s", "s", " ", "<", "A", "l", "t", ">", "F", "1">>] }

\* an item of one of the four sources the loop selects on: the three signal
\* streams and cmd_rx
Item(src, id, shortcuts, cmd) ==
    [src |-> src, id |-> id, shortcuts |-> shortcuts, cmd |-> cmd]

\* an item arrives: inbox keeps the pending items of all sources in arrival order
arrive(me, item) == [me EXCEPT !.inbox = Append(@, item)]

\* the pending items of one source, oldest first
source(me, src) == SelectSeq(me.inbox, LAMBDA x : x.src = src)

\* cmd_rx: the commands queued
queue(me) == source(me, "queue")

\* a source that yields its newest item first
next_index_newest(inbox, src) ==
    CHOOSE i \in DOMAIN inbox :
        /\ inbox[i].src = src
        /\ \A j \in DOMAIN inbox : j > i => inbox[j].src # src

\* Stream::next / Receiver::recv: the position in inbox of the oldest item of src
next_index(inbox, src) ==
    CHOOSE i \in DOMAIN inbox :
        /\ inbox[i].src = src
        /\ \A j \in DOMAIN inbox : j < i => inbox[j].src # src

\* the item the loop takes from src
next_item(me, src) == me.inbox[next_index(me.inbox, src)]

\* s without its i-th element
remove_at(s, i) == SubSeq(s, 1, i - 1) \o SubSeq(s, i + 1, Len(s))

\* a source that yields its next item without giving it up
take_kept(me, src) == me

\* the loop has taken the next item of src
take(me, src) == [me EXCEPT !.inbox = remove_at(@, next_index(me.inbox, src))]

\* the broker emits Activated / Deactivated for a shortcut id
BrokerSignal(m, stream, id, limit) ==
    /\ Subscribed(m)
    /\ stream \notin mgr[m].closed
    /\ signals < limit
    /\ signals' = signals + 1
    /\ mgr' = [mgr EXCEPT ![m] = arrive(@, Item(stream, id, <<>>, NoCmd))]
    /\ UNCHANGED <<outside_portal, wl_state, cmd_sender, caller, reply, broker, emitted>>

\* the broker emits ShortcutsChanged
BrokerShortcutsChanged(m, payload, limit) ==
    /\ Subscribed(m)
    /\ "changed" \notin mgr[m].closed
    /\ signals < limit
    /\ signals' = signals + 1
    /\ mgr' = [mgr EXCEPT ![m] = arrive(@, Item("changed", "", payload, NoCmd))]
    /\ UNCHANGED <<outside_portal, wl_state, cmd_sender, caller, reply, broker, emitted>>

\* Some(event) = activated.next() => handle_shortcut_activated
HandleActivated(m) ==
    /\ mgr[m].pc = "loop"
    /\ source(mgr[m], "activated") # <<>>
    /\ handle_shortcut_activated(next_item(mgr[m], "activated").id)
    /\ delivered("portal", "Pressed", next_item(mgr[m], "activated").id, push_to_talk)
    /\ mgr' = [mgr EXCEPT ![m] = take(@, "activated")]
    /\ UNCHANGED <<session_type, last_query, guards, push_to_talk, bindings, local_vars, wl_state,
                   cmd_sender, caller, reply, broker, emitted, signals>>

\* Some(event) = deactivated.next() => handle_shortcut_deactivated
HandleDeactivated(m) ==
    /\ mgr[m].pc = "loop"
    /\ source(mgr[m], "deactivated") # <<>>
    /\ handle_shortcut_deactivated(next_item(mgr[m], "deactivated").id)
    /\ delivered("portal", "Released", next_item(mgr[m], "deactivated").id, push_to_talk)
    /\ mgr' = [mgr EXCEPT ![m] = take(@, "deactivated")]
    /\ UNCHANGED <<session_type, last_query, guards, push_to_talk, bindings, local_vars, wl_state,
                   cmd_sender, caller, reply, broker, emitted, signals>>

\* a handler that replaces the cache by the list of the signal
handle_shortcuts_changed_replacing(shortcuts) ==
    [wl_state EXCEPT !.triggers = shortcuts]

\* handle_shortcuts_changed: the cache after the inserts
handle_shortcuts_changed(shortcuts) ==
    [wl_state EXCEPT !.triggers = insert_all(@, shortcuts)]

\* Some(event) = shortcuts_changed.next() => handle_shortcuts_changed
HandleShortcutsChanged(m) ==
    /\ mgr[m].pc = "loop"
    /\ source(mgr[m], "changed") # <<>>
    /\ wl_state' = handle_shortcuts_changed(next_item(mgr[m], "changed").shortcuts)
    /\ emit(<<Snapshot("wayland-shortcuts-changed", next_item(mgr[m], "changed").shortcuts),
              Status("ready")>>)
    /\ mgr' = [mgr EXCEPT ![m] = take(@, "changed")]
    /\ UNCHANGED <<outside_portal, cmd_sender, caller, reply, broker, signals>>

\* the three event streams of the loop
Streams == {"activated", "deactivated", "changed"}

\* the four sources the loop selects on
Sources == Streams \cup {"queue"}

\* the broker's connection ends one of the manager's event streams
StreamEnds(m, stream) ==
    /\ Subscribed(m)
    /\ stream \notin mgr[m].closed
    /\ mgr' = [mgr EXCEPT ![m].closed = @ \cup {stream}]
    /\ UNCHANGED <<outside_portal, wl_state, cmd_sender, caller, reply, broker,
                   emitted, signals>>

\* every Sender of the manager's command channel is dropped: the stored one
\* was replaced and no request_configure call holds a clone
senders_dropped(m) ==
    /\ cmd_sender # m
    /\ \A r \in Requesters :
          ~(caller[r].tx = m /\ caller[r].pc \in {"send", "await_resp"})

\* a source that counts as ended as soon as it has nothing pending
ended_when_idle(m, src) == source(mgr[m], src) = <<>>

\* .next() / .recv() on the source returns None: nothing is pending and the
\* stream has ended, or every sender is dropped
ended(m, src) ==
    /\ source(mgr[m], src) = <<>>
    /\ IF src = "queue" THEN senders_dropped(m) ELSE src \in mgr[m].closed

\* the task returns Ok(()): cmd_rx and the streams are dropped
exited(me) == [me EXCEPT !.pc = "exited", !.inbox = <<>>]

\* else => break: no arm of the select can match
LoopExit(m) ==
    /\ mgr[m].pc = "loop"
    /\ \A src \in Sources : ended(m, src)
    /\ mgr' = [mgr EXCEPT ![m] = exited(@)]
    /\ UNCHANGED <<outside_portal, wl_state, cmd_sender, caller, reply, broker,
                   emitted, signals>>

\* Some(cmd) = cmd_rx.recv() => Configure: portal.configure_shortcuts(&session, ..)
\* is called
TakeCommand(m) ==
    /\ mgr[m].pc = "loop"
    /\ queue(mgr[m]) # <<>>
    /\ mgr' = [mgr EXCEPT ![m] = [take(@, "queue") EXCEPT
                                     !.pc = "configure",
                                     !.cur = next_item(mgr[m], "queue").cmd,
                                     !.ops = [closes |-> 0, creates |-> 0, binds |-> 0]]]
    /\ reply' = [reply EXCEPT ![next_item(mgr[m], "queue").cmd].taken = @ + 1]
    /\ UNCHANGED <<outside_portal, wl_state, cmd_sender, caller, broker, emitted, signals>>

\* what configure_shortcuts can return on this broker: ashpd answers
\* RequiresVersion below portal version 2
ConfigureResults ==
    IF broker.version < 2 THEN {"requires_version"} ELSE {"ok", "err"}

\* portal.configure_shortcuts(..).await returns
ConfigureReturn(m, result) ==
    /\ mgr[m].pc = "configure"
    /\ result \in ConfigureResults
    /\ mgr' = [mgr EXCEPT ![m].pc = "configured", ![m].cfg_result = result]
    /\ UNCHANGED <<outside_portal, wl_state, cmd_sender, caller, reply, broker,
                   emitted, signals>>

\* a Configure arm that rebinds whatever configure_shortcuts returned
needs_fallback_always(result) == TRUE

\* a Configure arm that rebinds on every error of configure_shortcuts
needs_fallback_on_error(result) == result # "ok"

\* Err(ashpd::Error::RequiresVersion(required, actual)) => do_rebind_fallback
needs_fallback(result) == result = "requires_version"

\* match result { Ok(()) => .., Err(RequiresVersion) => .., Err(e) => .. }
ConfigureMatch(m) ==
    /\ mgr[m].pc = "configured"
    /\ IF needs_fallback(mgr[m].cfg_result)
       THEN /\ mgr' = [mgr EXCEPT ![m].pc = "fb_close"]
            /\ UNCHANGED reply
       ELSE /\ respond(mgr[m], mgr[m].cfg_result)
            /\ mgr' = [mgr EXCEPT ![m] = answered(@)]
    /\ UNCHANGED <<outside_portal, wl_state, cmd_sender, caller, broker, emitted, signals>>

\* do_rebind_fallback: session.close().await returns; an error is only logged
FallbackClose(m, ok) ==
    /\ mgr[m].pc = "fb_close"
    /\ broker' = IF ok THEN [broker EXCEPT !.closed = @ \cup {<<m, mgr[m].session>>}]
                 ELSE broker
    /\ mgr' = [mgr EXCEPT ![m].pc = "fb_create", ![m].ops.closes = @ + 1]
    /\ UNCHANGED <<outside_portal, wl_state, cmd_sender, caller, reply, emitted, signals>>

\* do_rebind_fallback: portal.create_session().await returns
FallbackCreate(m, ok) ==
    /\ mgr[m].pc = "fb_create"
    /\ ok => mgr[m].created < MaxSessions
    /\ IF ok
       THEN /\ mgr' = [mgr EXCEPT ![m].pc = "bind", ![m].bind_ctx = "fallback",
                                  ![m].new_session = mgr[m].created + 1,
                                  ![m].created = @ + 1,
                                  ![m].ops.creates = @ + 1]
            /\ UNCHANGED reply
       ELSE /\ respond(mgr[m], "err")
            /\ mgr' = [mgr EXCEPT ![m] = answered(@)]
    /\ UNCHANGED <<outside_portal, wl_state, cmd_sender, caller, broker, emitted, signals>>

\* ------------------------------------------------------------------------
\* Callers: init_shortcuts, change_binding, request_configure
\* ------------------------------------------------------------------------

\* the caller returns v
finish(c, v) == caller' = [caller EXCEPT ![c].pc = "done", ![c].result = v]

\* init_shortcuts on a Wayland session: the async task that runs
\* wayland::init_wayland_shortcuts is spawned
StartupInit ==
    /\ caller[0].pc = "idle"
    /\ session_type = "wayland"
    /\ caller' = [caller EXCEPT ![0].pc = "init"]
    /\ UNCHANGED <<outside_portal, wl_state, cmd_sender, mgr, reply, broker,
                   emitted, signals>>

\* open_wayland_shortcut_settings: request_configure is entered
RequestConfigure(r) ==
    /\ caller[r].pc = "idle"
    /\ session_type = "wayland"
    /\ caller' = [caller EXCEPT ![r].pc = "ensure"]
    /\ UNCHANGED <<outside_portal, wl_state, cmd_sender, mgr, reply, broker,
                   emitted, signals>>

\* change_binding on a Wayland session, up to request_configure(&app, None)
ChangeBindingWayland(r, id, trigger) ==
    /\ caller[r].pc = "idle"
    /\ session_type = "wayland"
    /\ IF id \notin DOMAIN bindings
       THEN /\ finish(r, "not_found")
            /\ UNCHANGED bindings
       ELSE IF ~validate_shortcut_string(trigger)
       THEN /\ finish(r, "invalid")
            /\ UNCHANGED bindings
       ELSE /\ bindings' = [bindings EXCEPT ![id] = trigger]
            /\ caller' = [caller EXCEPT ![r].pc = "ensure"]
    /\ UNCHANGED <<session_type, last_query, guards, push_to_talk, dispatch_vars, local_vars, events,
                   wl_state, cmd_sender, mgr, reply, broker, emitted, signals>>

\* ensure_manager_running: the test of the stored sender
EnsureManagerRunning(r) ==
    /\ caller[r].pc = "ensure"
    /\ caller' = [caller EXCEPT ![r].pc = IF cmd_sender # NoMgr THEN "get_tx" ELSE "init"]
    /\ UNCHANGED <<outside_portal, wl_state, cmd_sender, mgr, reply, broker,
                   emitted, signals>>

\* wayland::init_wayland_shortcuts up to init_rx.await: the channels are made,
\* the sender is stored, the manager task is spawned
InitWaylandShortcuts(c) ==
    /\ caller[c].pc = "init"
    /\ cmd_sender' = c
    /\ mgr' = [mgr EXCEPT ![c].pc = "connect"]
    /\ caller' = [caller EXCEPT ![c].pc = "await_init"]
    /\ UNCHANGED <<outside_portal, wl_state, reply, broker, emitted, signals>>

\* a request_configure that goes on whatever the startup returned
after_init_forwarding(c, v) ==
    IF c # 0 THEN [caller[c] EXCEPT !.pc = "get_tx"]
    ELSE [caller[c] EXCEPT !.pc = "done", !.result = v]

\* the caller of init_wayland_shortcuts once init_rx.await has returned v: the
\* startup task of init_shortcuts is done, request_configure returns the error
\* (ensure_manager_running(app).await?) or goes on to take the sender
after_init(c, v) ==
    IF v = "ok" /\ c # 0 THEN [caller[c] EXCEPT !.pc = "get_tx"]
    ELSE [caller[c] EXCEPT !.pc = "done", !.result = v]

\* init_rx.await returns: the value sent, or the error of a dropped sender
AwaitInit(c) ==
    /\ caller[c].pc = "await_init"
    /\ \/ /\ mgr[c].init # <<>>
          /\ caller' = [caller EXCEPT ![c] = after_init(c, Head(mgr[c].init))]
       \/ /\ mgr[c].init = <<>>
          /\ mgr[c].pc \in Terminated
          /\ finish(c, "no_signal")
    /\ UNCHANGED <<outside_portal, wl_state, cmd_sender, mgr, reply, broker,
                   emitted, signals>>

\* request_configure clones the stored sender
GetSender(r) ==
    /\ caller[r].pc = "get_tx"
    /\ IF cmd_sender = NoMgr
       THEN finish(r, "failed_to_start")
       ELSE caller' = [caller EXCEPT ![r].pc = "send", ![r].tx = cmd_sender]
    /\ UNCHANGED <<outside_portal, wl_state, cmd_sender, mgr, reply, broker,
                   emitted, signals>>

\* tx.send(WaylandCommand::Configure { .. }).await returns
SendCommand(r) ==
    /\ caller[r].pc = "send"
    /\ IF mgr[caller[r].tx].pc \in Terminated
       THEN /\ finish(r, "not_responding")
            /\ UNCHANGED mgr
       ELSE /\ Len(queue(mgr[caller[r].tx])) < ChannelCapacity
            /\ mgr' = [mgr EXCEPT ![caller[r].tx] = arrive(@, Item("queue", "", <<>>, r))]
            /\ caller' = [caller EXCEPT ![r].pc = "await_resp"]
    /\ UNCHANGED <<outside_portal, wl_state, cmd_sender, reply, broker, emitted, signals>>

\* a respond sender that is never dropped
responder_kept(r) == FALSE

\* the command's respond sender was dropped without a value: the command is in
\* no queue and in no manager's hand
Dropped(r) ==
    /\ reply[r].values = <<>>
    /\ \A m \in Callers :
          /\ mgr[m].cur # r
          /\ \A i \in DOMAIN mgr[m].inbox : mgr[m].inbox[i].cmd # r

\* respond_rx.await returns
AwaitResponse(r) ==
    /\ caller[r].pc = "await_resp"
    /\ \/ /\ reply[r].values # <<>>
          /\ finish(r, Head(reply[r].values))
       \/ /\ Dropped(r)
          /\ finish(r, "response_lost")
    /\ UNCHANGED <<outside_portal, wl_state, cmd_sender, mgr, reply, broker,
                   emitted, signals>>

\* ------------------------------------------------------------------------
\* The system
\* ------------------------------------------------------------------------

\* who can hold a MutexGuard: the manager task, the thread of a
\* get_wayland_shortcuts command, the thread that runs the Local callbacks
LockHolders == {"manager", "query", "callback"}

\* the mutexes of ManagedToggleState and ManagedWaylandState
Locks == {"toggles", "wayland"}

\* no guard is held and nobody is inside a handler: `at` is each holder's
\* position, `grant` the bind response being stored, `todo` its ids still to
\* store, `needed` what needs_backspace_workaround returned, `reg` the
\* registration whose callback runs
NoGuards ==
    [toggles |-> "none", wayland |-> "none",
     at |-> [h \in LockHolders |-> "rest"],
     grant |-> <<>>, todo |-> {}, needed |-> FALSE, reg |-> {}]

NoManager ==
    [pc |-> "unspawned", session |-> 0, new_session |-> 0, created |-> 0, bound |-> 0,
     bind_ctx |-> "none", asked |-> {}, dconf |-> "none", init |-> <<>>,
     inbox |-> <<>>, closed |-> {}, cur |-> NoCmd, cfg_result |-> "none",
     bind_result |-> [cause |-> "none", value |-> "none"],
     ops |-> [closes |-> 0, creates |-> 0, binds |-> 0]]

NoEvent == [path |-> "none", kind |-> "none", id |-> "none", ptt |-> FALSE,
            installed_ptt |-> FALSE]

\* the state after init_wayland_state and the managed states' construction
Constructed(store) ==
    /\ session_type \in {"wayland", "x11"}
    /\ push_to_talk \in BOOLEAN
    /\ bindings = store
    /\ active_toggles = <<>>
    /\ registered = {}
    /\ init_todo = {}
    /\ last_local = LocalCall(0, "none", "", <<>>, "none", "none", 0, "none")
    /\ wl_state = [triggers |-> <<>>, ready |-> FALSE, last_error |-> "none"]
    /\ cmd_sender = NoMgr
    /\ mgr = [m \in Callers |-> NoManager]
    /\ caller = [c \in Callers |-> [pc |-> "idle", tx |-> NoMgr, result |-> "none"]]
    /\ reply = [r \in Requesters |-> [values |-> <<>>, taken |-> 0]]
    /\ broker \in {[version |-> v, closed |-> {}] : v \in {1, 2}}
    /\ calls = [n |-> 0, last |-> Call("none", "none"),
                by_id |-> [id \in ACTION_MAP |-> "none"]]
    /\ events = [n |-> 0, last |-> NoEvent, presses |-> [id \in ACTION_MAP |-> 0],
                 toggle_only |-> TRUE]
    /\ backspaces = [started |-> 0, running |-> 0, failed |-> 0]
    /\ emitted = [n |-> 0, last |-> <<>>]
    /\ signals = 0
    /\ guards = NoGuards

\* a call of a read-only function: its name, its argument and what it
\* returned, a bool (flag), a String (text) or a Vec (list); and the state in
\* which none was made
Query(fn, arg, flag, text, list) ==
    [fn |-> fn, arg |-> arg, flag |-> flag, text |-> text, list |-> list]

NoQuery == Query("none", <<>>, FALSE, <<>>, {})

\* the state after construction with `store` as the binding store
InitWith(store) == Constructed(store) /\ last_query = NoQuery

\* the state after construction, the binding store holding its defaults
Init == InitWith(DefaultBindings)

\* the startup sequence of a manager task
ManagerStartup(m) ==
    \/ \E ok \in BOOLEAN : Connect(m, ok)
    \/ \E ok \in BOOLEAN : CreateSession(m, ok)
    \/ \E ok \in BOOLEAN : Subscribe(m, ok)

\* do_bind_shortcuts, at startup and in the fallback
ManagerBind(m) ==
    \/ \E ok \in BOOLEAN : BindShortcuts(m, ok)
    \/ \E ok \in BOOLEAN : BindRequested(m, ok)
    \/ \E g \in BrokerGrants : BindGranted(m, granted(g, mgr[m].asked))
    \/ \E cause \in ResponseFailures : BindDenied(m, cause)

\* the Configure arm of the loop
ManagerConfigure(m) ==
    \/ TakeCommand(m)
    \/ \E result \in {"ok", "err", "requires_version"} : ConfigureReturn(m, result)
    \/ ConfigureMatch(m)
    \/ \E ok \in BOOLEAN : FallbackClose(m, ok)
    \/ \E ok \in BOOLEAN : FallbackCreate(m, ok)

\* the press / release arms of the loop, and the broker's signals for them
PortalDispatch(m, limit) ==
    \/ \E stream \in {"activated", "deactivated"}, id \in ShortcutIds :
          BrokerSignal(m, stream, id, limit)
    \/ HandleActivated(m)
    \/ HandleDeactivated(m)

\* the ShortcutsChanged arm of the loop, and the broker's signal for it
PortalChanged(m, limit) ==
    \/ \E payload \in ChangedPayloads : BrokerShortcutsChanged(m, payload, limit)
    \/ HandleShortcutsChanged(m)

\* the end of the sources and of the loop
ManagerLoopEnd(m) ==
    \/ \E stream \in Streams : StreamEnds(m, stream)
    \/ LoopExit(m)

\* the Local backend
LocalStep ==
    \/ InitX11Start
    \/ \E id \in ShortcutIds : InitX11Step(id)
    \/ \E reg \in registered, state \in {"Pressed", "Released"} : LocalEvent(reg, state)

\* the commands of the UI on the Local backend
LocalCommand ==
    \/ \E id \in LocalEditedIds, trigger \in LocalTriggers : ChangeBindingX11(id, trigger)
    \/ \E id \in ShortcutIds : SuspendBinding(id)
    \/ \E id \in ShortcutIds : ResumeBinding(id)

\* change_binding called by the UI
ChangeStep(r) ==
    \E id \in EditedIds, trigger \in RequestedTriggers : ChangeBindingWayland(r, id, trigger)

\* request_configure, once entered
RequestStep(r) ==
    \/ EnsureManagerRunning(r)
    \/ GetSender(r)
    \/ SendCommand(r)
    \/ AwaitResponse(r)

\* ------------------------------------------------------------------------
\* The text functions on their own
\* ------------------------------------------------------------------------

\* the longest trigger, in '+'-separated tokens
MaxTokens == 3

\* the tokens the triggers are built from: every modifier name, in some
\* spelling, and keys of each kind
TextTokens == {
    <<"c", "t", "r", "l">>,
    <<"C", "o", "n", "t", "r", "o", "l">>,
    <<"a", "l", "t">>,
    <<"O", "p", "t", "i", "o", "n">>,
    <<"S", "H", "I", "F", "T">>,
    <<"m", "e", "t", "a">>,
    <<"c", "m", "d">>,
    <<"c", "o", "m", "m", "a", "n", "d">>,
    <<"s", "u", "p", "e", "r">>,
    <<"w", "i", "n">>,
    <<"W", "i", "n", "d", "o", "w", "s">>,
    <<" ", "c", "t", "r", "l">>,
    <<"s", "p", "a", "c", "e">>,
    <<"S", "p", "a", "c", "e", " ">>,
    <<"x">>,
    <<"F", "1">>,
    <<>>,
    <<UpperEAcute>>,
    <<"n", "u", "m", "1">>,
    <<"K", "P", "0">>,
    <<"e", "s", "c", "a", "p", "e">> }

\* the triggers of at most MaxTokens tokens
TextTriggers ==
    {join(ts, "+") : ts \in UNION {[1..n -> TextTokens] : n \in 1..MaxTokens}}

\* trigger descriptions as a broker words them, and degenerate ones
TextDescriptions == {
    <<"P", "r", "e", "s", "s", " ", "<", "C", "o", "n", "t", "r", "o", "l", ">", "s", "p", "a", "c", "e">>,
    <<"P", "r", "e", "s", "s", " ", "<", "C", "o", "n", "t", "r", "o", "l", ">", "<", "S", "h", "i", "f", "t", ">", "a">>,
    <<"P", "r", "e", "s", "s", " ", "<", "C", "o", "n", "t", "r", "o", "l", ">", "<", "S", "h", "i", "f", "t", ">", "F", "1">>,
    <<"P", "r", "e", "s", "s", " ", "<", "S", "u", "p", "e", "r", ">", "<", "S", "h", "i", "f", "t", ">", "E", "s", "c", "a", "p", "e">>,
    <<"P", "r", "e", "s", "s", " ", "<", "C", "o", "n", "t", "r", "o", "l", ">", " ", "s", "p", "a", "c", "e", " ">>,
    <<"P", "r", "e", "s", "s", " ", "S", "p", "a", "c", "e">>,
    <<"P", "r", "e", "s", "s", " ", "F", "1">>,
    <<"P", "r", "e", "s", "s", " ", "<", "C", "o", "n", "t", "r", "o", "l", ">", UpperEAcute>>,
    <<"P", "r", "e", "s", "s", " ", "<", "A", "l", "t", ">", "N", "u", "m", "1">>,
    <<"P", "r", "e", "s", "s", " ", "<", "A", "l", "t", ">", "k", "p">>,
    <<" ", " ", " ">>,
    <<"<", "C", "o", "n", "t", "r", "o", "l", ">">> }

TextInputs == TextTriggers \cup TextTokens \cup TextDescriptions

\* every variable but last_query
program_vars == <<session_type, push_to_talk, bindings, active_toggles, registered,
                  init_todo, last_local, wl_state, cmd_sender, mgr, caller, reply,
                  broker, calls, events, backspaces, emitted, signals, guards>>

\* one call of a text function on the text at hand
Apply(fn, flag, text) ==
    /\ last_query' = Query(fn, last_query.arg, flag, text, {})
    /\ UNCHANGED program_vars

ValidateShortcutString ==
    Apply("validate_shortcut_string", validate_shortcut_string(last_query.arg), <<>>)

ToPortalTrigger ==
    Apply("to_portal_trigger", FALSE, to_portal_trigger(last_query.arg))

ToGtkAccelerator ==
    Apply("to_gtk_accelerator", FALSE, to_gtk_accelerator(last_query.arg))

IsPrintableKey ==
    Apply("is_printable_key", is_printable_key(last_query.arg), <<>>)

TriggerHasPrintableKey ==
    Apply("trigger_has_printable_key", trigger_has_printable_key(last_query.arg), <<>>)

\* get_wayland_shortcuts: the list it returns
get_wayland_shortcuts ==
    IF session_type # "wayland" THEN {}
    ELSE IF ~wl_state.ready THEN {}
    ELSE shortcut_infos(wl_state.triggers)

\* the get_wayland_shortcuts command: it locks the cache, reads it and returns
GetWaylandShortcuts ==
    /\ last_query' = Query("get_wayland_shortcuts", <<>>, FALSE, <<>>,
                           get_wayland_shortcuts)
    /\ UNCHANGED program_vars

\* ------------------------------------------------------------------------
\* The handlers of the shared state, one step per lock, body and unlock
\* ------------------------------------------------------------------------

\* every variable but guards and those listed with the action
unguarded_rest == <<session_type, push_to_talk, bindings, registered, init_todo,
                    last_local, cmd_sender, caller, broker, signals>>

\* state.lock(): the mutex is free and holder h takes it
lock(name, h, pos) ==
    /\ guards[name] = "none"
    /\ guards' = [guards EXCEPT ![name] = h, !.at[h] = pos]

\* a guard that is still held after its block
release_kept(g, name) == g

\* the MutexGuard leaves its block and is dropped
release(g, name) == [g EXCEPT ![name] = "none"]

\* do_bind_shortcuts once request.response() has returned the bound shortcuts
\* (BindGranted), one step per lock, body and unlock
StoreGrant(m) ==
    \* request.response() has returned: the loop over the shortcuts starts
    \/ \E g \in BrokerGrants :
          /\ mgr[m].pc = "bind_wait"
          /\ guards.at["manager"] = "rest"
          /\ DOMAIN granted(g, mgr[m].asked) = mgr[m].asked
          /\ guards' = [guards EXCEPT !.at["manager"] = "store",
                                      !.grant = granted(g, mgr[m].asked),
                                      !.todo = mgr[m].asked]
          /\ UNCHANGED <<unguarded_rest, last_query, dispatch_vars, events, wl_state,
                         mgr, reply, emitted>>
    \* if let Ok(mut state) = state.lock(), for the next bound shortcut
    \/ /\ guards.at["manager"] = "store"
       /\ guards.todo # {}
       /\ lock("wayland", "manager", "insert")
       /\ UNCHANGED <<unguarded_rest, last_query, dispatch_vars, events, wl_state, mgr,
                      reply, emitted>>
    \* state.triggers.insert(id, trigger)
    \/ \E id \in ACTION_MAP :
          /\ guards.at["manager"] = "insert"
          /\ id \in guards.todo
          /\ wl_state' = [wl_state EXCEPT
                             !.triggers = insert_all(@, [x \in {id} |-> guards.grant[x]])]
          /\ guards' = [guards EXCEPT !.at["manager"] = "inserted", !.todo = @ \ {id}]
          /\ UNCHANGED <<unguarded_rest, last_query, dispatch_vars, events, mgr, reply,
                         emitted>>
    \* the guard of the insert is dropped
    \/ /\ guards.at["manager"] = "inserted"
       /\ guards' = [release(guards, "wayland") EXCEPT !.at["manager"] = "store"]
       /\ UNCHANGED <<unguarded_rest, last_query, dispatch_vars, events, wl_state, mgr,
                      reply, emitted>>
    \* if let Ok(mut state) = state.lock(), after the loop
    \/ /\ guards.at["manager"] = "store"
       /\ guards.todo = {}
       /\ lock("wayland", "manager", "ready")
       /\ UNCHANGED <<unguarded_rest, last_query, dispatch_vars, events, wl_state, mgr,
                      reply, emitted>>
    \* state.ready = true; state.last_error = None
    \/ /\ guards.at["manager"] = "ready"
       /\ wl_state' = [wl_state EXCEPT !.ready = TRUE, !.last_error = "none"]
       /\ guards' = [guards EXCEPT !.at["manager"] = "ready_set"]
       /\ UNCHANGED <<unguarded_rest, last_query, dispatch_vars, events, mgr, reply,
                      emitted>>
    \* the guard of the ready flag is dropped
    \/ /\ guards.at["manager"] = "ready_set"
       /\ guards' = [release(guards, "wayland") EXCEPT !.at["manager"] = "emit"]
       /\ UNCHANGED <<unguarded_rest, last_query, dispatch_vars, events, wl_state, mgr,
                      reply, emitted>>
    \* the two emissions, and do_bind_shortcuts returns Ok to its caller
    \/ /\ guards.at["manager"] = "emit"
       /\ emit(<<Snapshot("wayland-shortcuts-ready", guards.grant), Status("ready")>>)
       /\ bind_return(m, "granted")
       /\ guards' = [guards EXCEPT !.at["manager"] = "rest", !.grant = <<>>]
       /\ UNCHANGED <<unguarded_rest, last_query, dispatch_vars, events, wl_state>>

\* the activation the loop has in hand
pressed_id(m) == next_item(mgr[m], "activated").id

\* handle_shortcut_activated in toggle mode (HandleActivated), one step per
\* lock, body and unlock
HandlePress(m) ==
    \* Some(event) = activated.next(), the action is found, and
    \* needs_backspace_workaround locks the cache
    \/ /\ mgr[m].pc = "loop"
       /\ guards.at["manager"] = "rest"
       /\ source(mgr[m], "activated") # <<>>
       /\ pressed_id(m) \in ACTION_MAP
       /\ lock("wayland", "manager", "peek")
       /\ UNCHANGED <<unguarded_rest, last_query, dispatch_vars, events, wl_state, mgr,
                      reply, emitted>>
    \* state.triggers.get(shortcut_id), or the binding of the settings
    \/ /\ guards.at["manager"] = "peek"
       /\ guards' = [guards EXCEPT !.at["manager"] = "peeked",
                                   !.needed = needs_backspace_workaround(pressed_id(m))]
       /\ UNCHANGED <<unguarded_rest, last_query, dispatch_vars, events, wl_state, mgr,
                      reply, emitted>>
    \* the guard of the read is dropped
    \/ /\ guards.at["manager"] = "peeked"
       /\ guards' = [release(guards, "wayland") EXCEPT !.at["manager"] = "peek_done"]
       /\ UNCHANGED <<unguarded_rest, last_query, dispatch_vars, events, wl_state, mgr,
                      reply, emitted>>
    \* the workaround thread is spawned if needed, the settings are read, and in
    \* toggle mode toggle_state.lock() is taken
    \/ /\ guards.at["manager"] = "peek_done"
       /\ ~push_to_talk
       /\ backspaces' = IF guards.needed
                        THEN [backspaces EXCEPT !.started = @ + 1, !.running = @ + 1]
                        ELSE backspaces
       /\ lock("toggles", "manager", "toggle")
       /\ UNCHANGED <<unguarded_rest, last_query, active_toggles, calls, events, wl_state,
                      mgr, reply, emitted>>
    \* the entry is read, the action is started or stopped, the entry is written
    \/ /\ guards.at["manager"] = "toggle"
       /\ activated_dispatch(pressed_id(m))
       /\ guards' = [guards EXCEPT !.at["manager"] = "toggled"]
       /\ UNCHANGED <<unguarded_rest, last_query, backspaces, events, wl_state, mgr,
                      reply, emitted>>
    \* the guard of the toggle is dropped and the handler returns to the loop
    \/ /\ guards.at["manager"] = "toggled"
       /\ guards' = [release(guards, "toggles") EXCEPT !.at["manager"] = "rest",
                                                       !.needed = FALSE]
       /\ delivered("portal", "Pressed", pressed_id(m), push_to_talk)
       /\ mgr' = [mgr EXCEPT ![m] = take(@, "activated")]
       /\ UNCHANGED <<unguarded_rest, last_query, dispatch_vars, wl_state, reply, emitted>>

\* get_wayland_shortcuts on a Wayland session (GetWaylandShortcuts), one step
\* per lock, body and unlock
QueryShortcuts ==
    \* get_wayland_shortcuts on a Wayland session: let Ok(state) = state.lock()
    \/ /\ session_type = "wayland"
       /\ guards.at["query"] = "rest"
       /\ lock("wayland", "query", "locked")
       /\ UNCHANGED <<unguarded_rest, last_query, dispatch_vars, events, wl_state, mgr,
                      reply, emitted>>
    \* the ready flag and the triggers are read into the list
    \/ /\ guards.at["query"] = "locked"
       /\ last_query' = Query("get_wayland_shortcuts", <<>>, FALSE, <<>>,
                              get_wayland_shortcuts)
       /\ guards' = [guards EXCEPT !.at["query"] = "read"]
       /\ UNCHANGED <<unguarded_rest, dispatch_vars, events, wl_state, mgr, reply, emitted>>
    \* the function returns and its guard is dropped
    \/ /\ guards.at["query"] = "read"
       /\ guards' = [release(guards, "wayland") EXCEPT !.at["query"] = "rest"]
       /\ UNCHANGED <<unguarded_rest, last_query, dispatch_vars, events, wl_state, mgr,
                      reply, emitted>>

\* the on_shortcut closure for a press in toggle mode (LocalEvent), one step
\* per lock, body and unlock
CallbackPress ==
    \* the OS delivers Pressed for a registered accelerator in toggle mode: the
    \* closure takes toggle_state_manager.lock()
    \/ \E reg \in registered :
          /\ events.n < MaxEvents
          /\ reg.id \in ACTION_MAP
          /\ ~local_mode(reg)
          /\ guards.at["callback"] = "rest"
          /\ guards.toggles = "none"
          /\ guards' = [guards EXCEPT !.toggles = "callback", !.at["callback"] = "toggle",
                                      !.reg = {reg}]
          /\ UNCHANGED <<unguarded_rest, last_query, dispatch_vars, events, wl_state, mgr,
                         reply, emitted>>
    \* the entry is read, the action is started or stopped, the entry is written
    \/ \E reg \in guards.reg :
          /\ guards.at["callback"] = "toggle"
          /\ on_shortcut(reg, "Pressed")
          /\ guards' = [guards EXCEPT !.at["callback"] = "toggled"]
          /\ UNCHANGED <<unguarded_rest, last_query, backspaces, events, wl_state, mgr,
                         reply, emitted>>
    \* the closure returns and its guard is dropped
    \/ \E reg \in guards.reg :
          /\ guards.at["callback"] = "toggled"
          /\ guards' = [release(guards, "toggles") EXCEPT !.at["callback"] = "rest",
                                                          !.reg = {}]
          /\ delivered("local", "Pressed", reg.id, reg.installed_ptt)
          /\ UNCHANGED <<unguarded_rest, last_query, dispatch_vars, wl_state, mgr, reply,
                         emitted>>

TextCall ==
    \/ ValidateShortcutString
    \/ ToPortalTrigger
    \/ ToGtkAccelerator
    \/ IsPrintableKey
    \/ TriggerHasPrintableKey

Next ==
    \/ SetPushToTalk
    \/ TextCall
    \/ GetWaylandShortcuts
    \/ LocalStep
    \/ LocalCommand
    \/ StartupInit
    \/ \E c \in Callers : InitWaylandShortcuts(c) \/ AwaitInit(c)
    \/ \E r \in Requesters : RequestConfigure(r) \/ ChangeStep(r) \/ RequestStep(r)
    \/ \E m \in Callers :
          \/ ManagerStartup(m)
          \/ ManagerBind(m)
          \/ ManagerConfigure(m)
          \/ PortalDispatch(m, MaxEvents)
          \/ PortalChanged(m, MaxEvents)
          \/ ManagerLoopEnd(m)
    \/ \E ok \in BOOLEAN : SendBackspace(ok)

Spec == Init /\ [][Next]_vars

\* press / release dispatch on both backends: the startup initialisation, its
\* manager, the Local callbacks, the mode flag
NextDispatch ==
    \/ SetPushToTalk
    \/ LocalStep
    \/ StartupInit
    \/ InitWaylandShortcuts(0)
    \/ AwaitInit(0)
    \/ ManagerStartup(0)
    \/ ManagerBind(0)
    \/ PortalDispatch(0, MaxEvents)

SpecDispatch == Init /\ [][NextDispatch]_vars

\* a Wayland session in toggle mode
InitPortal == Init /\ session_type = "wayland" /\ ~push_to_talk

\* manager startup: every caller may find the sender absent and start a manager
NextStartup ==
    \/ StartupInit
    \/ \E c \in Callers : InitWaylandShortcuts(c) \/ AwaitInit(c)
    \/ \E r \in Requesters : RequestConfigure(r) \/ RequestStep(r)
    \/ \E m \in Callers : ManagerStartup(m) \/ ManagerBind(m)

SpecStartup == InitPortal /\ [][NextStartup]_vars

\* the manager of the startup initialisation serving requests made once it is
\* started
NextLoop ==
    \/ StartupInit
    \/ InitWaylandShortcuts(0)
    \/ AwaitInit(0)
    \/ \E r \in Requesters :
          \/ cmd_sender # NoMgr /\ (RequestConfigure(r) \/ ChangeStep(r))
          \/ RequestStep(r)
    \/ ManagerStartup(0)
    \/ ManagerBind(0)
    \/ ManagerConfigure(0)
    \/ PortalChanged(0, MaxSignals)

SpecLoop == InitPortal /\ [][NextLoop]_vars

\* the Local backend: a session that is not Wayland, the binding store as
\* loaded, init_x11_shortcuts and the commands of the UI
InitLocal ==
    /\ \E store \in StoredBindings : InitWith(store)
    /\ session_type = "x11"
    /\ ~push_to_talk

NextLocal ==
    \/ InitX11Start
    \/ \E id \in ShortcutIds : InitX11Step(id)
    \/ LocalCommand

SpecLocal == InitLocal /\ [][NextLocal]_vars

\* change_binding on both backends: a session of either kind, the startup
\* initialisation, change_binding calls and, on a Wayland session, the manager
\* serving the Configure commands they send
InitChange == Init /\ ~push_to_talk

NextChange ==
    \/ InitX11Start
    \/ \E id \in ShortcutIds : InitX11Step(id)
    \/ \E id \in ChangedIds, trigger \in ChangeTriggers : ChangeBindingX11(id, trigger)
    \/ StartupInit
    \/ InitWaylandShortcuts(0)
    \/ AwaitInit(0)
    \/ \E r \in Requesters :
          \/ /\ cmd_sender # NoMgr
             /\ \E id \in ChangedIds, trigger \in ChangeTriggers :
                   ChangeBindingWayland(r, id, trigger)
          \/ RequestStep(r)
    \/ ManagerStartup(0)
    \/ ManagerBind(0)
    \/ ManagerConfigure(0)

SpecChange == InitChange /\ [][NextChange]_vars

\* the activation path with the corrective keystroke threads: the manager of
\* the startup initialisation, Activated / Deactivated signals, the mode
\* switch and the threads running to their end
NextKeystroke ==
    \/ SetPushToTalk
    \/ StartupInit
    \/ InitWaylandShortcuts(0)
    \/ AwaitInit(0)
    \/ ManagerStartup(0)
    \/ ManagerBind(0)
    \/ PortalDispatch(0, MaxSignals)
    \/ \E ok \in BOOLEAN : SendBackspace(ok)

SpecKeystroke == InitPortal /\ [][NextKeystroke]_vars

\* the binds of one manager, at startup and in fallback rebinds, over a store
\* with bindings to bind and over one with none
InitBind ==
    /\ \E store \in {DefaultBindings, UnboundStore} : InitWith(store)
    /\ session_type = "wayland"
    /\ ~push_to_talk

NextBind ==
    \/ StartupInit
    \/ InitWaylandShortcuts(0)
    \/ AwaitInit(0)
    \/ \E r \in Requesters :
          \/ cmd_sender # NoMgr /\ RequestConfigure(r)
          \/ RequestStep(r)
    \/ ManagerStartup(0)
    \/ ManagerBind(0)
    \/ ManagerConfigure(0)

SpecBind == InitBind /\ [][NextBind]_vars

\* the handlers that lock the shared state, taken one lock, one body and one
\* unlock at a time, on either backend in toggle mode: the manager of the
\* startup initialisation storing a grant and handling presses, a thread
\* running get_wayland_shortcuts, the Local callbacks
NextLocks ==
    \/ InitX11Start
    \/ \E id \in ShortcutIds : InitX11Step(id)
    \/ StartupInit
    \/ InitWaylandShortcuts(0)
    \/ AwaitInit(0)
    \/ /\ guards.at["manager"] = "rest"
       /\ \/ ManagerStartup(0)
          \/ \E ok \in BOOLEAN : BindShortcuts(0, ok)
          \/ \E ok \in BOOLEAN : BindRequested(0, ok)
          \/ \E cause \in ResponseFailures : BindDenied(0, cause)
    \/ BrokerSignal(0, "activated", "dictate", MaxSignals)
    \/ StoreGrant(0)
    \/ HandlePress(0)
    \/ QueryShortcuts
    \/ CallbackPress

SpecLocks == InitChange /\ [][NextLocks]_vars

\* the statuses published and the cache queried, over a store with bindings to
\* bind and over one with none
NextReady ==
    \/ GetWaylandShortcuts
    \/ StartupInit
    \/ InitWaylandShortcuts(0)
    \/ AwaitInit(0)
    \/ ManagerStartup(0)
    \/ ManagerBind(0)
    \/ PortalChanged(0, MaxSignals)

SpecReady == InitBind /\ [][NextReady]_vars

\* request_configure calls made once the startup initialisation has stored its
\* sender, and its manager, which may have returned. Every call and every command is handled once, so no
\* behaviour takes steps for ever: the runtime polling its tasks and the
\* broker answering every call come to this, that the system does not stop
\* while a step can be taken
NextRequests ==
    \/ StartupInit
    \/ InitWaylandShortcuts(0)
    \/ AwaitInit(0)
    \/ \E r \in Requesters :
          \/ cmd_sender # NoMgr /\ RequestConfigure(r)
          \/ RequestStep(r)
    \/ ManagerStartup(0)
    \/ ManagerBind(0)
    \/ ManagerConfigure(0)

SpecRequests ==
    /\ InitPortal
    /\ [][NextRequests]_vars
    /\ WF_vars(NextRequests)

\* the startup initialisation and one request_configure call racing to start
\* a manager, the sources of the two managers ending; the runtime goes on
\* polling a task that can leave its loop
StreamCallers == {0, 1}

\* a Wayland session in toggle mode whose broker implements version 2
InitStreams == InitPortal /\ broker.version = 2

NextStreams ==
    \/ StartupInit
    \/ RequestConfigure(1)
    \/ RequestStep(1)
    \/ \E c \in StreamCallers : InitWaylandShortcuts(c) \/ AwaitInit(c)
    \/ \E m \in StreamCallers :
          \/ ManagerStartup(m)
          \/ ManagerBind(m)
          \/ TakeCommand(m)
          \/ \E result \in {"ok", "err"} : ConfigureReturn(m, result)
          \/ ConfigureMatch(m)
          \/ PortalChanged(m, 1)
          \/ ManagerLoopEnd(m)

SpecStreams ==
    /\ InitStreams
    /\ [][NextStreams]_vars
    /\ \A m \in StreamCallers : WF_vars(LoopExit(m))

\* the UI asking for the shortcuts at any moment of the manager's life, on
\* either kind of session
NextQuery ==
    \/ GetWaylandShortcuts
    \/ InitX11Start
    \/ \E id \in ShortcutIds : InitX11Step(id)
    \/ StartupInit
    \/ InitWaylandShortcuts(0)
    \/ AwaitInit(0)
    \/ ManagerStartup(0)
    \/ ManagerBind(0)
    \/ PortalChanged(0, MaxSignals)

SpecQuery == InitChange /\ [][NextQuery]_vars

\* the commands of the UI around an edit, on either backend: the Local
\* backend once its bindings are registered, the portal manager while it
\* starts and once it is bound
NextSuspend ==
    \/ InitX11Start
    \/ \E id \in ShortcutIds : InitX11Step(id)
    \/ LocalCommand
    \/ StartupInit
    \/ InitWaylandShortcuts(0)
    \/ AwaitInit(0)
    \/ ManagerStartup(0)
    \/ ManagerBind(0)

SpecSuspend == InitChange /\ [][NextSuspend]_vars

\* the text functions applied to a text drawn from TextInputs
InitText ==
    /\ Constructed(DefaultBindings)
    /\ session_type = "wayland" /\ ~push_to_talk /\ broker.version = 2
    /\ \E raw \in TextInputs : last_query = Query("none", raw, FALSE, <<>>, {})

NextText ==
    \/ ValidateShortcutString
    \/ ToPortalTrigger
    \/ ToGtkAccelerator
    \/ IsPrintableKey
    \/ TriggerHasPrintableKey

SpecText == InitText /\ [][NextText]_vars

\* ------------------------------------------------------------------------
\* Properties
\* ------------------------------------------------------------------------

\* this step dispatches a press or release
Dispatches == events'.n = events.n + 1

\* this step calls op of the action of id, once
CallsOnce(op, id) == calls'.n = calls.n + 1 /\ calls'.last = Call(op, id)

Odd(k) == k % 2 = 1

\* C1: as long as every event was dispatched with the mode flag at toggle,
\* each id with an action has had one call per Press and none for a Release:
\* the last call of an id pressed k times is start when k is odd and stop when k
\* is even, its active flag is set exactly when k is odd, and the calls made
\* are as many as the Presses.
C1_ToggleAlternates ==
    events.toggle_only =>
        /\ \A id \in ACTION_MAP :
              /\ toggle_entry(id) = Odd(events.presses[id])
              /\ calls.by_id[id] = IF events.presses[id] = 0 THEN "none"
                                   ELSE IF Odd(events.presses[id]) THEN "start"
                                   ELSE "stop"
        /\ calls.n = events.presses["dictate"] + events.presses["translate"]

\* a second Press of an id in toggle mode, then a Release, on the Local path
C1_Witness ==
    /\ events.toggle_only
    /\ events.last.path = "local"
    /\ events.last.kind = "Released"
    /\ events.presses[events.last.id] = 2
    /\ calls.by_id[events.last.id] = "stop"

\* C2: an event of an id with an action that is dispatched with the mode flag
\* at push-to-talk makes exactly one call, start for a Press and stop for a
\* Release, whatever the id's active flag is, and leaves the toggle state as
\* it was.
C2_PushToTalkOneToOne ==
    [][ (Dispatches /\ push_to_talk /\ events'.last.id \in ACTION_MAP) =>
            /\ CallsOnce(IF events'.last.kind = "Pressed" THEN "start" ELSE "stop",
                         events'.last.id)
            /\ active_toggles' = active_toggles ]_vars

\* a Release dispatched in push-to-talk mode on the Portal path for an id whose
\* active flag is not set: stop was called
C2_Witness ==
    /\ events.last.path = "portal"
    /\ events.last.ptt
    /\ events.last.kind = "Released"
    /\ events.last.id \in ACTION_MAP
    /\ ~toggle_entry(events.last.id)
    /\ calls.last = Call("stop", events.last.id)

\* C3: an event whose id has no action makes no call, changes no toggle state
\* and starts no corrective keystroke, and the manager that took it is back in
\* its loop with the rest of its pending items.
C3_UnknownIdDropped ==
    [][ (Dispatches /\ events'.last.id \notin ACTION_MAP) =>
            /\ calls' = calls
            /\ active_toggles' = active_toggles
            /\ backspaces' = backspaces
            /\ \A m \in Callers :
                  mgr'[m] # mgr[m] =>
                      /\ mgr'[m].pc = "loop"
                      /\ Len(mgr'[m].inbox) = Len(mgr[m].inbox) - 1 ]_vars

\* an activation of the id without an action was dispatched, after a call was
\* made for another id, and the manager is in its loop
C3_Witness ==
    /\ events.last.id = "stale"
    /\ events.last.kind = "Pressed"
    /\ needs_backspace_workaround("stale")
    /\ backspaces.started = 0
    /\ calls.n > 0
    /\ mgr[0].pc = "loop"

\* C4: the calls an event of an id with an action makes are those of the mode
\* the flag holds when the event is dispatched: push-to-talk (start on Press,
\* stop on Release, toggle state untouched) when it is set, toggle (a Press
\* flips the active flag and calls stop or start, a Release does nothing) when
\* it is not; the flag's value when the callback was installed plays no part.
C4_ModeReadAtDispatch ==
    [][ (Dispatches /\ events'.last.id \in ACTION_MAP) =>
            LET id == events'.last.id
                pressed == events'.last.kind = "Pressed"
            IN  IF push_to_talk
                THEN /\ CallsOnce(IF pressed THEN "start" ELSE "stop", id)
                     /\ active_toggles' = active_toggles
                ELSE IF pressed
                THEN /\ CallsOnce(IF toggle_entry(id) THEN "stop" ELSE "start", id)
                     /\ active_toggles' = toggle_set(id, ~toggle_entry(id))
                ELSE /\ calls' = calls
                     /\ active_toggles' = active_toggles ]_vars

\* a Local callback installed in toggle mode handled a Release in push-to-talk
\* mode: stop was called
C4_Witness ==
    /\ events.last.path = "local"
    /\ ~events.last.installed_ptt
    /\ events.last.ptt
    /\ events.last.kind = "Released"
    /\ calls.last = Call("stop", events.last.id)

\* the manager tasks spawned so far
Spawned == {m \in Callers : mgr[m].pc # "unspawned"}

\* C5: at most one manager task has been spawned, whatever the interleaving
\* of the startup initialisation and the request_configure calls.
C5_AtMostOneManager == Cardinality(Spawned) <= 1

\* manager m is in its startup sequence, before the outcome of the initial bind
Starting(m) ==
    \/ mgr[m].pc \in {"connect", "create_session"}
    \/ mgr[m].pc \in {"bind", "bind_call", "bind_wait"} /\ mgr[m].bind_ctx = "init"

\* C6: a manager sends nothing on its completion signal while it is starting
\* and exactly one value once startup is over: an error leaves the task
\* terminated with no session bound and no second session tried, success is
\* sent only when the initial bind has returned Ok; the caller that spawned the
\* manager is past init_rx.await only when the value is there, and returns the
\* error when it is one.
C6_OneInitValue ==
    \A m \in Spawned :
        /\ Starting(m) <=> mgr[m].init = <<>>
        /\ Len(mgr[m].init) <= 1
        /\ mgr[m].init = <<"err">> =>
              /\ mgr[m].pc \in Terminated
              /\ mgr[m].bound = 0
              /\ mgr[m].created <= 1
        /\ mgr[m].init = <<"ok">> => mgr[m].bound # 0 /\ mgr[m].bound = mgr[m].created
        /\ caller[m].pc # "await_init" =>
              /\ mgr[m].init # <<>>
              /\ mgr[m].init = <<"err">> =>
                    caller[m].pc = "done" /\ caller[m].result = "err"

\* the initial bind of a manager started by a request failed: the error was
\* delivered, the task is over and the request has returned the error
C6_Witness ==
    \E m \in Requesters :
        /\ mgr[m].pc \in Terminated
        /\ mgr[m].session # 0
        /\ mgr[m].init = <<"err">>
        /\ caller[m].pc = "done"
        /\ caller[m].result = "err"

\* C7 as stated: every accepted command is consumed and answered, so none is
\* ever gone from the queue without a reply.
C7_EveryAcceptedConsumed ==
    \A r \in Requesters :
        /\ caller[r].pc = "await_resp" => ~Dropped(r)
        /\ caller[r].result # "response_lost"

\* the command a step takes from cmd_rx is the oldest queued
TakesOldestCommand ==
    \A m \in Callers :
        (mgr'[m].cur # mgr[m].cur /\ mgr'[m].cur # NoCmd) =>
            mgr'[m].cur = Head(queue(mgr[m])).cmd

\* C7: an accepted command is consumed at most once, and in the order of
\* acceptance; a reply is sent only for a consumed command and at most once,
\* and exactly once by the time its handling is over; a command is gone
\* without having been consumed only when the manager task it was sent to has
\* terminated, and its caller then gets the error of a lost response.
C7_ConsumedOnceInOrder ==
    /\ [](\A r \in Requesters :
            /\ reply[r].taken <= 1
            /\ Len(reply[r].values) <= reply[r].taken
            /\ (reply[r].taken = 1 /\ \A m \in Callers : mgr[m].cur # r)
                  => Len(reply[r].values) = 1
            /\ (caller[r].pc = "await_resp" /\ Dropped(r))
                  => (reply[r].taken = 0 /\ mgr[caller[r].tx].pc \in Terminated)
            /\ caller[r].result = "response_lost"
                  => (reply[r].taken = 0 /\ mgr[caller[r].tx].pc \in Terminated))
    /\ [][TakesOldestCommand]_vars

\* both requests were answered, the second command having waited in the queue
\* while the first was in hand
C7_Witness ==
    /\ \A r \in Requesters : reply[r].taken = 1
    /\ \E r \in Requesters :
          /\ Len(reply[r].values) = 1
          /\ \E m \in Callers : mgr[m].cur # NoCmd /\ mgr[m].cur # r

\* manager m handles an item in this step
Handles(m) ==
    /\ mgr[m].pc = "loop"
    /\ mgr'[m].pc \notin Terminated
    /\ Len(mgr'[m].inbox) < Len(mgr[m].inbox)

\* C8 as stated: the item a manager handles is the one that arrived first
\* among all its pending items, whatever their sources.
C8_ArrivalOrderAcrossSources ==
    [][\A m \in Callers : Handles(m) => mgr'[m].inbox = Tail(mgr[m].inbox)]_vars

\* C8: a manager handles one item per step and only when no command is in
\* hand, and the item is the oldest pending one of its own source; a command
\* is in hand exactly while the manager is out of its loop after startup.
C8_OneAtATimePerSourceOrder ==
    /\ [][\A m \in Callers : Handles(m) =>
            /\ mgr[m].cur = NoCmd
            /\ \E i \in DOMAIN mgr[m].inbox :
                  /\ mgr'[m].inbox = remove_at(mgr[m].inbox, i)
                  /\ \A j \in 1..(i - 1) : mgr[m].inbox[j].src # mgr[m].inbox[i].src]_vars
    /\ [](\A m \in Callers :
            mgr[m].cur # NoCmd <=>
                mgr[m].pc \in {"configure", "configured", "fb_close", "fb_create",
                               "bind", "bind_call", "bind_wait"}
                /\ mgr[m].init # <<>>)

\* a command is in hand while a grant-changed signal that arrived before it
\* is still pending
C8_Witness ==
    \E m \in Callers :
        /\ mgr[m].cur # NoCmd
        /\ mgr[m].inbox # <<>>
        /\ Head(mgr[m].inbox).src = "changed"
        /\ reply[mgr[m].cur].values = <<>>

\* C9: when configure_shortcuts has returned Ok, the manager's next step sends
\* Ok on the command's response channel and is back in its loop with the same
\* session and the same cache; and once a command was taken on a broker that
\* supports the call, the cached triggers change only in a step that handles a
\* ShortcutsChanged signal.
C9_ConfigureOkIsImmediate ==
    /\ [][\A m \in Callers :
            (mgr[m].pc = "configured" /\ mgr[m].cfg_result = "ok"
               /\ mgr'[m].pc # "configured") =>
                /\ reply'[mgr[m].cur].values = <<"ok">>
                /\ mgr'[m].pc = "loop"
                /\ mgr'[m].session = mgr[m].session
                /\ wl_state' = wl_state]_vars
    /\ [][(wl_state'.triggers # wl_state.triggers
             /\ broker.version >= 2
             /\ \E r \in Requesters : reply[r].taken > 0) =>
                \E m \in Callers :
                    /\ Handles(m)
                    /\ Len(source(mgr'[m], "changed")) < Len(source(mgr[m], "changed"))]_vars

\* a change_binding request was answered Ok on a version 2 broker: the binding
\* store holds the new trigger, the cache still holds the granted ones and the
\* session is the first one
C9_Witness ==
    \E r \in Requesters :
        /\ broker.version = 2
        /\ caller[r].result = "ok"
        /\ reply[r].values = <<"ok">>
        /\ bindings # DefaultBindings
        /\ wl_state.triggers \in BrokerGrants
        /\ mgr[0].session = 1
        /\ mgr[0].created = 1

\* C10: a command whose configure_shortcuts call returned RequiresVersion is
\* answered after exactly one close attempt; when it is answered Ok exactly one
\* session was created and one bind run, on that session, which is now the
\* manager's; when it is answered with an error at most one session was created
\* and the manager keeps the session it had; and every configure_shortcuts call
\* is made on the session of the last bind that succeeded.
C10_FallbackRebindsOnce ==
    /\ [][\A m \in Callers :
            (mgr[m].cfg_result = "requires_version" /\ mgr'[m].pc = "loop") =>
                /\ mgr[m].ops.closes = 1
                /\ mgr[m].ops.creates <= 1
                /\ mgr[m].ops.binds = mgr[m].ops.creates
                /\ Len(reply'[mgr[m].cur].values) = 1
                /\ IF reply'[mgr[m].cur].values = <<"ok">>
                   THEN /\ mgr[m].ops.creates = 1
                        /\ mgr'[m].session = mgr[m].new_session
                        /\ mgr'[m].session # mgr[m].session
                        /\ mgr'[m].bound = mgr'[m].session
                   ELSE mgr'[m].session = mgr[m].session]_vars
    /\ [](\A m \in Callers :
            mgr[m].pc \in {"configure", "configured"} => mgr[m].session = mgr[m].bound)

\* a fallback whose close failed was answered Ok, and a later command's
\* configure_shortcuts call is in flight on the new session
C10_Witness ==
    /\ broker.closed = {}
    /\ mgr[0].pc = "configure"
    /\ mgr[0].session = 2
    /\ \E r \in Requesters : reply[r].values = <<"ok">>

\* C11 (as stated): whenever a fallback is answered with an error, the session
\* the manager keeps is closed at the broker.
C11_KeptHandleIsClosed ==
    [][\A m \in Callers :
         (/\ mgr[m].pc \in {"fb_create", "bind_call", "bind_wait"}
          /\ mgr[m].bind_ctx # "init"
          /\ mgr'[m].pc = "loop"
          /\ reply'[mgr[m].cur].values = <<"err">>) =>
             <<m, mgr'[m].session>> \in broker'.closed]_vars

\* C11 (amended): a fallback whose create_session or bind failed is answered
\* with one error in the step in which the failure returns, after one close
\* attempt, at most one create_session and no bind beyond that session's; the
\* manager keeps the session it had, which is closed at the broker when that
\* close attempt succeeded, and goes back to the loop; the manager's session
\* changes only at the startup create_session and when a fallback bind
\* succeeds, so later commands are run on the kept session until then.
C11_FailedFallbackKeepsSession ==
    /\ [][\A m \in Callers :
            (/\ mgr[m].pc \in {"fb_create", "bind_call", "bind_wait"}
             /\ mgr[m].bind_ctx # "init"
             /\ mgr'[m].pc # mgr[m].pc
             /\ reply'[mgr[m].cur].values # <<"ok">>
             /\ mgr'[m].pc \notin {"bind", "bind_call", "bind_wait"}) =>
                /\ reply'[mgr[m].cur].values = <<"err">>
                /\ mgr'[m].pc = "loop"
                /\ mgr'[m].session = mgr[m].session
                /\ mgr'[m].bound = mgr[m].bound
                /\ mgr[m].ops.closes = 1
                /\ mgr[m].ops.creates <= 1
                /\ mgr[m].ops.binds = mgr[m].ops.creates
                /\ broker' = broker]_vars
    /\ [][\A m \in Callers :
            mgr'[m].session # mgr[m].session =>
                \/ mgr[m].pc = "create_session"
                \/ /\ mgr[m].bind_ctx = "fallback"
                   /\ reply'[mgr[m].cur].values = <<"ok">>
                   /\ mgr'[m].session = mgr[m].new_session]_vars
    /\ [][\A m \in Callers :
            (mgr[m].pc = "fb_close" /\ mgr'[m].pc = "fb_create") =>
                broker'.closed \in {broker.closed,
                                    broker.closed \cup {<<m, mgr[m].session>>}}]_vars

\* a fallback closed session 1 and failed; a later command's configure_shortcuts
\* call is in flight on that closed session
C11_Witness ==
    /\ <<0, 1>> \in broker.closed
    /\ mgr[0].pc = "configure"
    /\ mgr[0].session = 1
    /\ mgr[0].bound = 1
    /\ \E r \in Requesters : reply[r].values = <<"err">>

\* C12: while the response of a bind is awaited, a ShortcutsChanged signal
\* pending on its stream can be handled by the manager (and likewise an
\* Activated or a Deactivated signal).
C12_EventsDeliveredWhileBindPending ==
    \A m \in Callers :
        (mgr[m].pc = "bind_wait" /\ Subscribed(m)) =>
            /\ source(mgr[m], "changed") # <<>> => ENABLED HandleShortcutsChanged(m)
            /\ source(mgr[m], "activated") # <<>> => ENABLED HandleActivated(m)
            /\ source(mgr[m], "deactivated") # <<>> => ENABLED HandleDeactivated(m)

BrokerTriggers ==
    {g[id] : g \in BrokerGrants, id \in ACTION_MAP}
        \cup UNION {{p[id] : id \in DOMAIN p} : p \in ChangedPayloads}

\* f overwritten by g where g is defined
Overwritten(f, g) ==
    [id \in DOMAIN f \cup DOMAIN g |-> IF id \in DOMAIN g THEN g[id] ELSE f[id]]

\* C14: every cached trigger is one the broker reported, and the cache is
\* written only by a bind the broker granted, which stores the granted
\* trigger of every id asked, and by the handling of a ShortcutsChanged signal,
\* which stores the trigger of every id the signal lists; so the cached trigger
\* of an id is the one of the last grant or signal handled that mentioned it.
\* A step of change_binding, which writes the binding store, a Configure
\* command and a failed bind leave the cache as it was.
C14_CacheHoldsBrokerTriggers ==
    /\ [](\A id \in DOMAIN wl_state.triggers :
            /\ wl_state.triggers[id] \in BrokerTriggers
            /\ wl_state.triggers[id] \notin RequestedTriggers
            /\ \A b \in DOMAIN bindings : wl_state.triggers[id] # bindings[b])
    /\ [][wl_state'.triggers # wl_state.triggers =>
            \E m \in Callers :
                \/ /\ mgr[m].pc = "bind_wait"
                   /\ mgr'[m].bind_result.cause = "granted"
                   /\ \E g \in BrokerGrants :
                        /\ wl_state'.triggers =
                              Overwritten(wl_state.triggers,
                                          [id \in mgr[m].asked |-> g[id]])
                        /\ emitted'.last[1] =
                              Snapshot("wayland-shortcuts-ready",
                                       [id \in mgr[m].asked |-> g[id]])
                \/ /\ mgr[m].pc = "loop"
                   /\ mgr'[m].pc = "loop"
                   /\ \E i \in DOMAIN mgr[m].inbox :
                        /\ mgr[m].inbox[i].src = "changed"
                        /\ mgr'[m].inbox = remove_at(mgr[m].inbox, i)
                        /\ wl_state'.triggers =
                              Overwritten(wl_state.triggers, mgr[m].inbox[i].shortcuts)]_vars
    /\ [][(\/ bindings' # bindings
           \/ \E m \in Callers :
                \/ mgr[m].pc \in {"configure", "configured", "fb_close", "fb_create",
                                  "bind", "bind_call"}
                \/ /\ mgr'[m].bind_result # mgr[m].bind_result
                   /\ mgr'[m].bind_result.value # "ok")
            => wl_state'.triggers = wl_state.triggers]_vars

\* change_binding stored a requested trigger for translate, a later
\* ShortcutsChanged signal was handled, and the cache holds the trigger that
\* signal reported, the binding store the requested one
C14_Witness ==
    /\ bindings["translate"] \in RequestedTriggers
    /\ "translate" \in DOMAIN wl_state.triggers
    /\ \E p \in ChangedPayloads :
          "translate" \in DOMAIN p /\ wl_state.triggers["translate"] = p["translate"]
    /\ emitted.last[1].event = "wayland-shortcuts-changed"

\* C15: the step that handles a ShortcutsChanged signal stores the trigger of
\* every id the signal lists, leaves the cached trigger of every other id, the
\* ready flag and the last error as they were, publishes exactly one snapshot,
\* of the listed ids with the triggers of the signal (followed by the status
\* ready), makes no start or stop call, starts no corrective keystroke and
\* leaves the toggle state unchanged.
C15_ShortcutsChangedUpdatesListedOnly ==
    [][\A m \in Callers : \A i \in DOMAIN mgr[m].inbox :
         (/\ mgr[m].pc = "loop"
          /\ mgr'[m].pc = "loop"
          /\ mgr[m].inbox[i].src = "changed"
          /\ mgr'[m].inbox = remove_at(mgr[m].inbox, i)) =>
             LET listed == mgr[m].inbox[i].shortcuts
             IN  /\ DOMAIN wl_state'.triggers = DOMAIN wl_state.triggers \cup DOMAIN listed
                 /\ \A id \in DOMAIN listed : wl_state'.triggers[id] = listed[id]
                 /\ \A id \in DOMAIN wl_state.triggers \ DOMAIN listed :
                        wl_state'.triggers[id] = wl_state.triggers[id]
                 /\ wl_state'.ready = wl_state.ready
                 /\ wl_state'.last_error = wl_state.last_error
                 /\ emitted'.n = emitted.n + 2
                 /\ Len(emitted'.last) = 2
                 /\ emitted'.last[1].event = "wayland-shortcuts-changed"
                 /\ {x.id : x \in emitted'.last[1].infos} = DOMAIN listed
                 /\ \A x \in emitted'.last[1].infos : x.trigger = listed[x.id]
                 /\ emitted'.last[2] = Status("ready")
                 /\ calls' = calls
                 /\ active_toggles' = active_toggles
                 /\ backspaces' = backspaces
                 /\ events' = events]_vars

\* a signal listing only "stale" was handled after the initial grant: the
\* cache holds its trigger next to the granted ones and the snapshot published
\* last lists that id alone
C15_Witness ==
    /\ DOMAIN wl_state.triggers = ACTION_MAP \cup {"stale"}
    /\ Len(emitted.last) = 2
    /\ emitted.last[1].event = "wayland-shortcuts-changed"
    /\ {x.id : x \in emitted.last[1].infos} = {"stale"}
    /\ \E g \in BrokerGrants : \A id \in ACTION_MAP : wl_state.triggers[id] = g[id]

Forwarded(r) ==
    \/ reply[r].taken > 0
    \/ \E m \in Callers :
          \/ mgr[m].cur = r
          \/ \E i \in DOMAIN mgr[m].inbox :
                mgr[m].inbox[i].src = "queue" /\ mgr[m].inbox[i].cmd = r

\* C17: a request_configure that found no sender stored spawns a manager and
\* waits on its init channel; while it waits, and after that manager's startup
\* has failed, its Configure command is in no queue and in no manager's hands;
\* it takes the sender and sends only after the startup has reported Ok; after
\* a failed startup it has returned the startup error.
C17_ForwardsOnlyAfterStartup ==
    /\ [](\A r \in Requesters :
            mgr[r].pc # "unspawned" =>
                /\ caller[r].pc \in {"await_init", "get_tx", "send", "await_resp", "done"}
                /\ caller[r].pc = "await_init" => ~Forwarded(r)
                /\ (caller[r].pc \in {"get_tx", "send", "await_resp"} \/ Forwarded(r))
                      => mgr[r].init = <<"ok">>
                /\ (mgr[r].init = <<"err">> /\ caller[r].pc # "await_init") =>
                      /\ caller[r].pc = "done"
                      /\ caller[r].result = "err"
                      /\ ~Forwarded(r)
                      /\ reply[r].values = <<>>)
    /\ [][\A r \in Requesters :
            (caller[r].pc = "ensure" /\ caller'[r].pc # "ensure" /\ cmd_sender = NoMgr) =>
                caller'[r].pc = "init"]_vars
    /\ [][\A r \in Requesters :
            (caller[r].pc = "init" /\ caller'[r].pc # "init") =>
                /\ caller'[r].pc = "await_init"
                /\ mgr[r].pc = "unspawned"
                /\ mgr'[r].pc = "connect"]_vars

\* a request that found no sender spawned its manager, saw the startup succeed
\* and has sent its command to that manager
C17_Witness ==
    \E r \in Requesters :
        /\ mgr[r].init = <<"ok">>
        /\ cmd_sender = r
        /\ caller[r].pc = "await_resp"
        /\ \E i \in DOMAIN mgr[r].inbox : mgr[r].inbox[i].cmd = r

\* C18: ensure_manager_running goes on to init_wayland_shortcuts, which spawns
\* a manager task and waits for its startup, when no sender is stored and also
\* when the manager of the stored sender has failed its startup.
C18_FreshStartupAfterFailure ==
    [][\A r \in Requesters :
         (/\ caller[r].pc = "ensure"
          /\ caller'[r].pc # "ensure"
          /\ \/ cmd_sender = NoMgr
             \/ /\ cmd_sender # NoMgr
                /\ mgr[cmd_sender].pc \in Terminated
                /\ mgr[cmd_sender].init = <<"err">>) =>
             caller'[r].pc = "init"]_vars

\* the callbacks installed when the register_shortcut call of the command
\* recorded in c starts: do_change_binding_x11 has unregistered the old
\* trigger of the binding first
BeforeRegister(c) ==
    IF c.op = "change" /\ parse_ok(bindings[c.id])
    THEN {reg \in registered : reg.acc # parse_shortcut(bindings[c.id])}
    ELSE registered

\* a command that called register_shortcut has run in this step
RegisterCalled == last_local'.n = last_local.n + 1 /\ last_local'.register # "none"

\* C19: a register_shortcut call for a binding that has an action and a
\* trigger that parses fails with the duplicate error exactly when the parsed
\* accelerator is already registered; it then makes no on_shortcut call and
\* leaves the registered callbacks as they were, and the command returns an
\* error; a call that succeeds adds one callback for an accelerator that was
\* free; in every state each registered accelerator has one callback, of one
\* binding.
C19_DuplicateRegistrationFails ==
    /\ [](\A a, b \in registered : a.acc = b.acc => a = b)
    /\ [][RegisterCalled =>
            LET c == last_local'
                usable == /\ c.id \in ACTION_MAP
                          /\ validate_shortcut_string(c.trigger)
                          /\ parse_ok(c.trigger)
                claimed == \E reg \in BeforeRegister(c) : reg.acc = parse_shortcut(c.trigger)
            IN  /\ c.register = "duplicate" <=> (usable /\ claimed)
                /\ c.register = "duplicate" =>
                      /\ registered' = BeforeRegister(c)
                      /\ c.on_shortcut_calls = 0
                      /\ c.result = "err"
                /\ c.register = "ok" =>
                      /\ ~claimed
                      /\ c.on_shortcut_calls = 1
                      /\ registered' = BeforeRegister(c) \cup
                            {[acc |-> parse_shortcut(c.trigger), id |-> c.id,
                              installed_ptt |-> push_to_talk]}]_vars

\* change_binding asked for dictate's accelerator, spelt differently, for
\* translate: the register call failed as a duplicate and dictate's callback
\* is the one registered
C19_Witness ==
    /\ last_local.op = "change"
    /\ last_local.id = "translate"
    /\ last_local.register = "duplicate"
    /\ last_local.trigger # bindings["dictate"]
    /\ \E reg \in registered :
          reg.id = "dictate" /\ reg.acc = parse_shortcut(last_local.trigger)

\* C20: a register_shortcut call for a binding whose id has no action, or whose
\* trigger is modifier-only or does not parse, fails (with the error of the
\* first of these tests that fails), makes no on_shortcut call and leaves the
\* registered callbacks as they were, and the command returns an error; the
\* loop of init_x11_shortcuts leaves them as they were for such a binding too.
C20_RejectedBeforeRegistration ==
    /\ [][RegisterCalled =>
            LET c == last_local'
                no_action == c.id \notin ACTION_MAP
                modifier_only == c.trigger = <<"s", "h", "i", "f", "t", "+", "a", "l", "t">>
                unparsable == c.trigger = <<"a", "+", "b">>
            IN  /\ no_action <=> c.register = "no_action"
                /\ (~no_action /\ modifier_only) <=> c.register = "invalid"
                /\ (~no_action /\ unparsable) <=> c.register = "parse_error"
                /\ c.register \in {"no_action", "invalid", "parse_error"} =>
                      /\ c.on_shortcut_calls = 0
                      /\ registered' = BeforeRegister(c)
                      /\ c.result = "err"]_vars
    /\ [][\A id \in init_todo :
            (/\ init_todo' = init_todo \ {id}
             /\ \/ id \notin ACTION_MAP
                \/ bindings[id] \in {<<"s", "h", "i", "f", "t", "+", "a", "l", "t">>,
                                    <<"a", "+", "b">>})
                => registered' = registered]_vars

\* resume_binding ran for translate while the store holds a modifier-only
\* trigger for it: the call was refused on validation, dictate's callback is
\* the only one
C20_Witness ==
    /\ last_local.op = "resume"
    /\ last_local.id = "translate"
    /\ last_local.register = "invalid"
    /\ last_local.result = "err"
    /\ {reg.id : reg \in registered} = {"dictate"}

\* C21: a change_binding on the Local backend that passed validation writes
\* the store, calls unregister_shortcut for the old trigger and then
\* register_shortcut for the new one, whatever the unregister call returned;
\* the callbacks installed afterwards are those left by the unregister call
\* plus, when the register call returned Ok, the new one; the command reports
\* success exactly when the register call returned Ok.
C21_ChangeUnregistersThenRegisters ==
    [][(last_local'.n = last_local.n + 1 /\ last_local'.op = "change"
        /\ last_local'.result \notin {"not_found", "invalid"}) =>
          LET c == last_local'
              old == bindings[c.id]
              new == [acc |-> parse_shortcut(c.trigger), id |-> c.id,
                      installed_ptt |-> push_to_talk]
          IN  /\ bindings' = [bindings EXCEPT ![c.id] = c.trigger]
              /\ c.unregister # "none"
              /\ c.register # "none"
              /\ c.unregister = "ok" <=>
                    (parse_ok(old) /\ \E reg \in registered : reg.acc = parse_shortcut(old))
              /\ registered' = IF c.register = "ok"
                               THEN BeforeRegister(c) \cup {new}
                               ELSE BeforeRegister(c)
              /\ c.result = "ok" <=> c.register = "ok"
              /\ c.result \in {"ok", "err"}]_vars

\* the old trigger of translate did not parse, so unregistering it failed; the
\* new trigger was registered and the command reported success
C21_Witness ==
    /\ last_local.op = "change"
    /\ last_local.id = "translate"
    /\ last_local.unregister = "parse_error"
    /\ last_local.register = "ok"
    /\ last_local.result = "ok"
    /\ \E reg \in registered : reg.id = "translate"

\* change_binding, on the backend of the session, fails for these arguments
\* without touching the store, the registered callbacks, the manager, the
\* broker, the cache or the command queue, and without an unregister, a
\* register or a request_configure call
FailsUntouched(id, trigger) ==
    /\ (session_type # "wayland" /\ caller[0].pc = "done"
         /\ last_local.n < MaxLocalCalls) =>
       ~ENABLED (/\ ChangeBindingX11(id, trigger)
                 /\ ~(/\ last_local'.result \in {"not_found", "invalid"}
                      /\ last_local'.unregister = "none"
                      /\ last_local'.register = "none"
                      /\ last_local'.on_shortcut_calls = 0
                      /\ bindings' = bindings
                      /\ registered' = registered))
    /\ \A r \in Requesters :
          (session_type = "wayland" /\ caller[r].pc = "idle") =>
          ~ENABLED (/\ ChangeBindingWayland(r, id, trigger)
                    /\ ~(/\ caller'[r].pc = "done"
                         /\ caller'[r].result \in {"not_found", "invalid"}
                         /\ bindings' = bindings
                         /\ registered' = registered
                         /\ mgr' = mgr
                         /\ broker' = broker
                         /\ wl_state' = wl_state
                         /\ reply' = reply))

\* C22: in every reachable state a change_binding call whose id is not in the
\* binding store, or whose trigger is modifier-only, can only fail (not_found,
\* invalid), with the store, the registered callbacks, the manager's session
\* and queue, the broker and the cache unchanged and no unregister, register
\* or request_configure call made; and the store changes only to a trigger
\* that passes validation, for an id it holds.
C22_RejectedChangeTouchesNothing ==
    /\ [](\A id \in ChangedIds, trigger \in ChangeTriggers :
            (\/ id \notin DOMAIN bindings
             \/ trigger = <<"s", "h", "i", "f", "t", "+", "a", "l", "t">>)
                => FailsUntouched(id, trigger))
    /\ [][/\ DOMAIN bindings' = DOMAIN bindings
          /\ \A id \in DOMAIN bindings :
                bindings'[id] # bindings[id] =>
                    bindings'[id] # <<"s", "h", "i", "f", "t", "+", "a", "l", "t">>]_vars

\* on a Wayland session with the manager in its loop, one change_binding call
\* was refused for its id and another for its trigger; the store holds its
\* defaults and no command was sent
C22_Witness ==
    /\ mgr[0].pc = "loop"
    /\ \E r \in Requesters : caller[r].result = "not_found"
    /\ \E r \in Requesters : caller[r].result = "invalid"
    /\ bindings = DefaultBindings
    /\ mgr[0].inbox = <<>>
    /\ \A r \in Requesters : reply[r].taken = 0

\* the modifier names C23 lists
ListedModifiers == {
    <<"c", "t", "r", "l">>,
    <<"c", "o", "n", "t", "r", "o", "l">>,
    <<"s", "h", "i", "f", "t">>,
    <<"a", "l", "t">>,
    <<"o", "p", "t", "i", "o", "n">>,
    <<"m", "e", "t", "a">>,
    <<"c", "m", "d">>,
    <<"c", "o", "m", "m", "a", "n", "d">>,
    <<"s", "u", "p", "e", "r">>,
    <<"w", "i", "n">>,
    <<"w", "i", "n", "d", "o", "w", "s">> }

\* the '+'-separated tokens of a text, trimmed and lower-cased
TrimmedLowerTokens(raw) ==
    LET pieces == split(raw, "+")
    IN  {to_lowercase(trim(pieces[i])) : i \in DOMAIN pieces}

\* C23: validate_shortcut_string reports invalid when every '+'-separated
\* token, trimmed and lower-cased, is one of ctrl, control, shift, alt, option,
\* meta, cmd, command, super, win, windows, and valid when at least one token
\* is not
C23_ValidIffSomeTokenNotModifier ==
    last_query.fn = "validate_shortcut_string" =>
        /\ TrimmedLowerTokens(last_query.arg) \subseteq ListedModifiers
              => last_query.flag = FALSE
        /\ TrimmedLowerTokens(last_query.arg) \ ListedModifiers # {}
              => last_query.flag = TRUE

\* a trigger of three modifier names, one in upper case and one with a blank
\* before it, was found invalid
C23_Witness ==
    /\ last_query.fn = "validate_shortcut_string"
    /\ last_query.flag = FALSE
    /\ Len(split(last_query.arg, "+")) = MaxTokens
    /\ " " \in Range(last_query.arg)
    /\ "S" \in Range(last_query.arg)

\* the trigger C24 is about
SpaceAlone == <<"s", "p", "a", "c", "e">>

\* C24 as stated: a change_binding call with the trigger "space" fails
\* validation, so that the Local backend makes no call for it and no step
\* stores it (the portal manager is asked to rebind only after the store is
\* written)
C24_SpaceAloneIsRejected ==
    [][/\ (last_local'.n # last_local.n /\ last_local'.op = "change"
             /\ last_local'.trigger = SpaceAlone)
          => /\ last_local'.result \in {"not_found", "invalid"}
             /\ last_local'.unregister = "none" /\ last_local'.register = "none"
       /\ \A id \in DOMAIN bindings' : bindings'[id] = SpaceAlone =>
             id \in DOMAIN bindings /\ bindings[id] = SpaceAlone]_vars

\* C24 (amended): the trigger "space" passes validation. A change_binding
\* call with it for a stored id stores it and goes on to the backend: on the
\* Local backend the old trigger is unregistered and "space" is given to
\* register_shortcut, whose result decides the answer; on a Wayland session
\* the call goes on to request_configure
C24_SpaceAloneReachesBackend ==
    /\ [](validate_shortcut_string(SpaceAlone))
    /\ [][(last_local'.n # last_local.n /\ last_local'.op = "change"
             /\ last_local'.trigger = SpaceAlone /\ last_local'.id \in DOMAIN bindings)
          => /\ bindings'[last_local'.id] = SpaceAlone
             /\ last_local'.unregister # "none"
             /\ last_local'.register = register_outcome(
                    unregister_shortcut(registered, bindings[last_local'.id]),
                    last_local'.id, SpaceAlone)
             /\ last_local'.register \in {"ok", "duplicate"}
             /\ last_local'.result = (IF last_local'.register = "ok" THEN "ok" ELSE "err")]_vars
    /\ [](\A r \in Requesters, id \in ChangedIds \cap DOMAIN bindings :
            (session_type = "wayland" /\ caller[r].pc = "idle") =>
                ~ENABLED (/\ ChangeBindingWayland(r, id, SpaceAlone)
                          /\ ~(/\ caller'[r].pc = "ensure"
                               /\ bindings'[id] = SpaceAlone)))

\* on a Wayland session the store holds "space" for translate and the
\* Configure command of the change_binding call is in the manager's queue
C24_Witness ==
    /\ session_type = "wayland"
    /\ bindings["translate"] = SpaceAlone
    /\ \E i \in DOMAIN mgr[0].inbox : mgr[0].inbox[i].cmd \in Requesters

\* the broker's description of the trigger "ctrl+space"
PressControlSpace == <<"P", "r", "e", "s", "s", " ", "<", "C", "o", "n", "t", "r", "o", "l", ">", "s", "p", "a", "c", "e">>

\* the (id, trigger, has_printable_key) entries published for dictate by the
\* last step that emitted
PublishedForDictate ==
    UNION {{x \in emitted.last[i].infos : x.id = "dictate"} :
              i \in {j \in DOMAIN emitted.last : emitted.last[j].status = ""}}

\* C25 as stated: with dictate bound to "ctrl+space", what is published for
\* dictate when the broker granted "Press <Control>space" has
\* has_printable_key = FALSE
C25_CtrlSpaceFlaggedNotPrintable ==
    \A x \in PublishedForDictate :
        (bindings["dictate"] = <<"c", "t", "r", "l", "+", "s", "p", "a", "c", "e">> /\ x.trigger = PressControlSpace)
            => x.has_printable_key = FALSE

\* C25 (amended): with dictate bound to "ctrl+space", the step that handles
\* an Activated signal for dictate, in push-to-talk mode or with dictate's
\* toggle off, makes exactly one call, start("dictate"); the cached trigger of
\* dictate is the broker's description, never the text "ctrl+space", and what
\* is published for dictate carries the cached trigger and the flag
\* trigger_has_printable_key gives for it, which is TRUE for
\* "Press <Control>space"
C25_OneStartAndPrintableFlag ==
    /\ [][\A i \in DOMAIN mgr[0].inbox :
            (/\ bindings["dictate"] = <<"c", "t", "r", "l", "+", "s", "p", "a", "c", "e">>
             /\ mgr[0].pc = "loop"
             /\ mgr'[0].pc = "loop"
             /\ mgr[0].inbox[i].src = "activated"
             /\ mgr[0].inbox[i].id = "dictate"
             /\ mgr'[0].inbox = remove_at(mgr[0].inbox, i)
             /\ (push_to_talk \/ ~toggle_entry("dictate"))) =>
                /\ calls'.n = calls.n + 1
                /\ calls'.last = Call("start", "dictate")]_vars
    /\ []("dictate" \in DOMAIN wl_state.triggers =>
            /\ wl_state.triggers["dictate"] \in BrokerTriggers
            /\ wl_state.triggers["dictate"] # bindings["dictate"])
    /\ [](\A x \in PublishedForDictate :
            /\ x.trigger = wl_state.triggers["dictate"]
            /\ x.has_printable_key = trigger_has_printable_key(x.trigger)
            /\ x.trigger = PressControlSpace => x.has_printable_key = TRUE)

\* the broker granted "Press <Control>space" for dictate, the snapshot published
\* says so with the printable flag set, and the one activation handled since
\* made the one call start("dictate")
C25_Witness ==
    /\ bindings["dictate"] = <<"c", "t", "r", "l", "+", "s", "p", "a", "c", "e">>
    /\ "dictate" \in DOMAIN wl_state.triggers
    /\ wl_state.triggers["dictate"] = PressControlSpace
    /\ calls.n = 1
    /\ calls.last = Call("start", "dictate")
    /\ events.n = 1
    /\ \E x \in PublishedForDictate : x.has_printable_key

\* the callbacks installed in regs for the accelerator of a trigger
CallbacksOf(regs, raw) ==
    IF parse_ok(raw) THEN {reg \in regs : reg.acc = parse_shortcut(raw)} ELSE {}

\* on a Wayland session every suspend_binding and resume_binding call returns
\* Ok, makes no unregister or register call and changes nothing else
SuspendResumeNoOpOnPortal ==
    [][(session_type = "wayland" /\ last_local'.n # last_local.n) =>
          /\ last_local'.op \in {"suspend", "resume"}
          /\ last_local'.result = "ok"
          /\ last_local'.unregister = "none" /\ last_local'.register = "none"
          /\ registered' = registered
          /\ mgr' = mgr /\ broker' = broker /\ wl_state' = wl_state
          /\ cmd_sender' = cmd_sender /\ bindings' = bindings]_vars

\* C26: on the Local backend, when resume_binding(id) follows
\* suspend_binding(id), the callbacks installed for the accelerator of the
\* id's trigger are those that were installed before the suspend_binding
\* call; on a Wayland session every suspend_binding and resume_binding call
\* returns Ok and changes neither the manager and its session, nor the cached
\* triggers, nor the broker, nor a registration
C26_SuspendResumeRestores ==
    /\ [][(/\ session_type # "wayland"
           /\ last_local.op = "suspend"
           /\ last_local'.op = "resume"
           /\ last_local'.n = last_local.n + 1
           /\ last_local'.id = last_local.id
           /\ last_local.id \in DOMAIN bindings) =>
              CallbacksOf(registered', bindings[last_local.id])
                  = CallbacksOf(last_local.before, bindings[last_local.id])]_vars
    /\ SuspendResumeNoOpOnPortal

\* C27: get_wayland_shortcuts can return in every state, whatever the manager
\* task is doing; it returns the empty list when the session is not Wayland or
\* the cache's ready flag is false, and otherwise one entry per cached id, with
\* the cached trigger and the flag trigger_has_printable_key gives for that
\* trigger; the call changes nothing
C27_QueryReadsCacheOnly ==
    /\ [](ENABLED GetWaylandShortcuts)
    /\ [][(last_query'.fn = "get_wayland_shortcuts" /\ last_query' # last_query) =>
            LET list == last_query'.list
            IN  /\ (session_type # "wayland" \/ ~wl_state.ready) => list = {}
                /\ (session_type = "wayland" /\ wl_state.ready) =>
                      /\ {x.id : x \in list} = DOMAIN wl_state.triggers
                      /\ Cardinality(list) = Cardinality(DOMAIN wl_state.triggers)
                      /\ \A x \in list :
                            /\ x.trigger = wl_state.triggers[x.id]
                            /\ x.has_printable_key =
                                  (IF ">" \in Range(x.trigger)
                                   THEN is_printable_key(trim(rsplit_once_after(x.trigger, ">")))
                                   ELSE is_printable_key(
                                            split_whitespace(x.trigger)[
                                                Len(split_whitespace(x.trigger))]))
                /\ program_vars' = program_vars]_vars

\* the query returned three entries, one of them for an id a ShortcutsChanged
\* signal added, with both values of the printable flag, while the manager is
\* in its loop
C27_Witness ==
    /\ last_query.fn = "get_wayland_shortcuts"
    /\ Cardinality(last_query.list) = 3
    /\ \E x \in last_query.list : x.id = "stale"
    /\ \E x \in last_query.list : x.has_printable_key
    /\ \E x \in last_query.list : ~x.has_printable_key
    /\ mgr[0].pc = "loop"

\* the canonical portal name C28 gives for a lower-cased token, <<>> for a
\* token that is not a modifier name
CanonicalName(lower) ==
    IF lower \in { <<"c", "t", "r", "l">>, <<"c", "o", "n", "t", "r", "o", "l">> }
        THEN <<"C", "o", "n", "t", "r", "o", "l">>
    ELSE IF lower \in { <<"a", "l", "t">>, <<"o", "p", "t", "i", "o", "n">> }
        THEN <<"A", "l", "t">>
    ELSE IF lower = <<"s", "h", "i", "f", "t">>
        THEN <<"S", "h", "i", "f", "t">>
    ELSE IF lower \in { <<"m", "e", "t", "a">>, <<"c", "m", "d">>, <<"c", "o", "m", "m", "a", "n", "d">>, <<"s", "u", "p", "e", "r">>, <<"w", "i", "n">>, <<"w", "i", "n", "d", "o", "w", "s">> }
        THEN <<"S", "u", "p", "e", "r">>
    ELSE <<>>

\* out is the token-by-token image of the tokens in: as many tokens, each
\* modifier name replaced by its canonical name, each other token as it is
MappedTokenwise(in, out) ==
    /\ Len(out) = Len(in)
    /\ \A i \in DOMAIN in :
          out[i] = (IF CanonicalName(to_lowercase(in[i])) # <<>>
                    THEN CanonicalName(to_lowercase(in[i]))
                    ELSE in[i])

\* C28 as stated: the '+'-separated tokens of to_portal_trigger's result are
\* those of its argument, in number and order, each modifier name replaced by
\* its canonical portal name whatever its case and every other token unchanged
C28_TokensMappedOrUnchanged ==
    last_query.fn = "to_portal_trigger" =>
        MappedTokenwise(split(last_query.arg, "+"), split(last_query.text, "+"))

\* C28 (amended): to_portal_trigger first trims the blanks around every
\* '+'-separated token; the tokens of its result are the trimmed tokens of
\* its argument, in number and order, each modifier name replaced by its
\* canonical portal name (Control, Alt, Shift, Super) whatever its case and
\* every other token kept as trimmed, joined with '+';
\* "ctrl+shift+space" gives "Control+Shift+space" and "meta+x" gives "Super+x"
C28_TrimmedTokensMapped ==
    /\ last_query.fn = "to_portal_trigger" =>
          LET pieces == split(last_query.arg, "+")
          IN  /\ MappedTokenwise([i \in DOMAIN pieces |-> trim(pieces[i])],
                                 split(last_query.text, "+"))
              /\ last_query.arg = <<"m", "e", "t", "a", "+", "x">>
                    => last_query.text = <<"S", "u", "p", "e", "r", "+", "x">>
    /\ to_portal_trigger(<<"c", "t", "r", "l", "+", "s", "h", "i", "f", "t", "+", "s", "p", "a", "c", "e">>)
          = <<"C", "o", "n", "t", "r", "o", "l", "+", "S", "h", "i", "f", "t", "+", "s", "p", "a", "c", "e">>

\* " ctrl+SHIFT+Space " was converted to "Control+Shift+Space"
C28_Witness ==
    /\ last_query.fn = "to_portal_trigger"
    /\ last_query.arg = <<" ", "c", "t", "r", "l", "+", "S", "H", "I", "F", "T", "+", "S", "p", "a", "c", "e", " ">>
    /\ last_query.text = <<"C", "o", "n", "t", "r", "o", "l", "+", "S", "h", "i", "f", "t", "+", "S", "p", "a", "c", "e">>

\* the angle-bracket name C29 gives for a lower-cased token, <<>> for a token
\* that is not a modifier name
BracketName(lower) ==
    IF CanonicalName(lower) # <<>>
    THEN <<"<">> \o CanonicalName(lower) \o <<">">>
    ELSE <<>>

\* the trimmed '+'-separated tokens of a trigger
TrimmedTokens(raw) ==
    LET pieces == split(raw, "+")
    IN  [i \in DOMAIN pieces |-> trim(pieces[i])]

\* C29 as stated: the result of to_gtk_accelerator is, token after token and
\* with nothing between, the angle-bracket name of each modifier token and
\* each other token as it is
C29_KeyTokenAppendedAsIs ==
    last_query.fn = "to_gtk_accelerator" =>
        LET toks == TrimmedTokens(last_query.arg)
        IN  last_query.text =
                concat([i \in DOMAIN toks |->
                          IF BracketName(to_lowercase(toks[i])) # <<>>
                          THEN BracketName(to_lowercase(toks[i]))
                          ELSE toks[i]])

\* what to_gtk_accelerator builds: token after token and with nothing
\* between, the angle-bracket name (<Control>, <Alt>, <Shift>, <Super>) of
\* each modifier token and each other token trimmed and
\* lower-cased; a token is a modifier for to_gtk_accelerator exactly when it is
\* one for to_portal_trigger, with the same name; "ctrl+space" gives
\* "<Control>space" and "super+shift+f1" gives "<Super><Shift>f1"
LowercasedKeyAccelerator ==
    /\ last_query.fn = "to_gtk_accelerator" =>
          LET toks == TrimmedTokens(last_query.arg)
          IN  /\ last_query.text =
                    concat([i \in DOMAIN toks |->
                              IF BracketName(to_lowercase(toks[i])) # <<>>
                              THEN BracketName(to_lowercase(toks[i]))
                              ELSE to_lowercase(toks[i])])
              /\ \A i \in DOMAIN toks :
                    LET lower == to_lowercase(toks[i])
                    IN  /\ gtk_modifier(lower) # <<>> <=> portal_modifier(lower) # <<>>
                        /\ gtk_modifier(lower) # <<>> =>
                              gtk_modifier(lower)
                                  = <<"<">> \o portal_modifier(lower) \o <<">">>
              /\ last_query.arg = <<"c", "t", "r", "l", "+", "s", "p", "a", "c", "e">>
                    => last_query.text = <<"<", "C", "o", "n", "t", "r", "o", "l", ">", "s", "p", "a", "c", "e">>
    /\ to_gtk_accelerator(<<"s", "u", "p", "e", "r", "+", "s", "h", "i", "f", "t", "+", "f", "1">>)
          = <<"<", "S", "u", "p", "e", "r", ">", "<", "S", "h", "i", "f", "t", ">", "f", "1">>

\* the keys C30 calls printable: "space", a single alphanumeric character, a
\* token that starts with "num" or "kp", whatever the case
ListedPrintable(key) ==
    LET lower == to_lowercase(key)
    IN  \/ lower = <<"s", "p", "a", "c", "e">>
        \/ Len(key) = 1 /\ is_alphanumeric(key[1])
        \/ starts_with(lower, <<"n", "u", "m">>)
        \/ starts_with(lower, <<"k", "p">>)

\* the key of a trigger description: the text after its last '>', trimmed,
\* or its last word when it has no '>'
DescribedKey(trigger) ==
    IF ">" \in Range(trigger) THEN trim(rsplit_once_after(trigger, ">"))
    ELSE IF split_whitespace(trigger) # <<>>
         THEN split_whitespace(trigger)[Len(split_whitespace(trigger))]
         ELSE <<>>

\* C30: is_printable_key is true exactly for "space", any single
\* alphanumeric character and the tokens that start with "num" or "kp",
\* whatever the case; the printable flag of a trigger description is
\* is_printable_key of the text after its last '>', or of its last word when
\* it has no '>'
C30_PrintableExactlyAsListed ==
    /\ last_query.fn = "is_printable_key" =>
          last_query.flag = ListedPrintable(last_query.arg)
    /\ last_query.fn = "trigger_has_printable_key" =>
          last_query.flag = is_printable_key(DescribedKey(last_query.arg))

\* what holds of is_printable_key: it is as listed for every key written in
\* ASCII, and the flag of a description is that of its key
PrintableOnAscii ==
    /\ (/\ last_query.fn = "is_printable_key"
        /\ \A i \in DOMAIN last_query.arg : len_utf8(last_query.arg[i]) = 1) =>
          last_query.flag = ListedPrintable(last_query.arg)
    /\ last_query.fn = "trigger_has_printable_key" =>
          last_query.flag = is_printable_key(DescribedKey(last_query.arg))

\* C31: every do_bind_shortcuts that has bindings to bind, in the startup
\* sequence and in a fallback rebind, runs update_dconf_shortcuts and then
\* issues the broker's bind call, whether the step returned Ok or Err; while
\* the call or its response is pending the step has run; and what the bind
\* returns does not depend on the step: a grant after a failed step is a
\* successful bind
C31_CacheStepNeverBlocksBind ==
    /\ [][\A m \in Callers :
            (mgr[m].pc = "bind" /\ mgr'[m].pc # "bind" /\ bindable # {}) =>
                /\ mgr'[m].pc = "bind_call"
                /\ mgr'[m].dconf \in {"ok", "err"}
                /\ mgr'[m].ops.binds = mgr[m].ops.binds + 1
                /\ mgr'[m].bind_ctx = mgr[m].bind_ctx
                /\ mgr[m].bind_ctx \in {"init", "fallback"}]_vars
    /\ [](\A m \in Callers :
            mgr[m].pc \in {"bind_call", "bind_wait"} => mgr[m].dconf \in {"ok", "err"})
    /\ [][\A m \in Callers :
            (/\ mgr[m].pc = "bind_wait"
             /\ mgr'[m].pc # "bind_wait"
             /\ emitted' # emitted
             /\ emitted'.last[1].event = "wayland-shortcuts-ready") =>
                /\ mgr'[m].bind_result = [cause |-> "granted", value |-> "ok"]
                /\ wl_state'.ready]_vars

\* in a fallback rebind the cache step failed and the bind call was issued
\* all the same: the manager waits for the broker's response on the new session
C31_Witness ==
    /\ mgr[0].pc = "bind_wait"
    /\ mgr[0].bind_ctx = "fallback"
    /\ mgr[0].dconf = "err"
    /\ mgr[0].ops.binds = 1
    /\ mgr[0].new_session # mgr[0].session

\* C32: a do_bind_shortcuts step asks the broker for exactly the bindings
\* whose id is in the action registry; when there is none it returns Ok with
\* the empty list in that one step, without a bind call, an emission or a
\* change of the cache, so that a store without such a binding never has a
\* bind call pending nor the ready flag set
C32_BindsExactlyBindingsWithAction ==
    /\ [][\A m \in Callers :
            (mgr[m].pc = "bind" /\ mgr'[m].pc # "bind") =>
                LET qualifying == {id \in DOMAIN bindings : id \in ACTION_MAP}
                IN  IF qualifying # {}
                    THEN /\ mgr'[m].pc = "bind_call"
                         /\ mgr'[m].asked = qualifying
                         /\ mgr'[m].ops.binds = mgr[m].ops.binds + 1
                    ELSE /\ mgr'[m].bind_result = [cause |-> "nothing_to_bind",
                                                   value |-> "ok"]
                         /\ mgr'[m].pc \in {"subscribe", "loop"}
                         /\ mgr[m].bind_ctx = "init" => mgr'[m].init = <<"ok">>
                         /\ mgr[m].bind_ctx # "init" =>
                               reply'[mgr[m].cur].values = <<"ok">>
                         /\ emitted' = emitted
                         /\ wl_state' = wl_state
                         /\ broker' = broker]_vars
    /\ [](\A m \in Callers :
            /\ mgr[m].pc \in {"bind_call", "bind_wait"} =>
                  /\ mgr[m].asked = {id \in DOMAIN bindings : id \in ACTION_MAP}
                  /\ mgr[m].asked # {}
            /\ bindings = UnboundStore =>
                  /\ mgr[m].pc \notin {"bind_call", "bind_wait"}
                  /\ ~wl_state.ready
                  /\ wl_state.triggers = <<>>
                  /\ emitted.n = 0)

\* with a store that has no binding with an action, the startup bind and a
\* fallback rebind both returned Ok: the manager is in its loop on the new
\* session, nothing was published and the cache is not ready
C32_Witness ==
    /\ bindings = UnboundStore
    /\ mgr[0].pc = "loop"
    /\ mgr[0].session = 2
    /\ mgr[0].bind_result.cause = "nothing_to_bind"
    /\ \E r \in Requesters : reply[r].values = <<"ok">>
    /\ emitted.n = 0
    /\ ~wl_state.ready

\* the three event streams of manager m have ended and every sender of its
\* command channel is dropped
AllSourcesClosed(m) ==
    /\ mgr[m].closed = Streams
    /\ senders_dropped(m)

\* C33: a manager task that has entered its event loop returns only from the
\* loop itself and only when its three event streams and its command queue
\* are all closed; the end of a stream changes nothing else of the task, so
\* with a source still open the task stays; and a task in its loop with all
\* four closed does return
C33_LoopEndsWhenAllSourcesClosed ==
    /\ [][\A m \in Callers :
            (Subscribed(m) /\ mgr'[m].pc \in Terminated) =>
                /\ mgr[m].pc = "loop"
                /\ mgr'[m].pc = "exited"
                /\ AllSourcesClosed(m)
                /\ mgr[m].inbox = <<>>]_vars
    /\ [][\A m \in Callers :
            mgr'[m].closed # mgr[m].closed =>
                /\ mgr[m].closed \subseteq mgr'[m].closed
                /\ mgr'[m].pc = mgr[m].pc
                /\ mgr'[m].pc \notin Terminated
                /\ mgr'[m].inbox = mgr[m].inbox]_vars
    /\ [](\A m \in Callers :
            (mgr[m].pc = "loop" /\ ~AllSourcesClosed(m)) => ~ENABLED LoopExit(m))
    /\ \A m \in StreamCallers :
          (mgr[m].pc = "loop" /\ AllSourcesClosed(m) /\ mgr[m].inbox = <<>>)
              ~> (mgr[m].pc = "exited")

\* the startup manager lost its stored sender to the manager a request
\* started, its three streams ended, and it has left its loop; the other
\* manager, two of its streams ended, is still in its loop
C33_Witness ==
    /\ mgr[0].pc = "exited"
    /\ mgr[0].closed = Streams
    /\ cmd_sender = 1
    /\ mgr[1].pc = "loop"
    /\ mgr[1].closed = {"activated", "changed"}

\* the guards holder h has
Held(h) == {name \in Locks : guards[name] = h}

\* the positions of a handler between lock() and the end of the block: the
\* guard just taken, and the body done
JustLocked == {"insert", "ready", "peek", "toggle", "locked"}

BodyDone == {"inserted", "ready_set", "peeked", "toggled", "read"}

\* C34: a guard on the toggle map or on the cache is held only from lock() to
\* the end of one read or update: its holder is then inside that block, the
\* one step it takes with the guard is the read or update, and its next step
\* drops the guard; a holder outside such a block has no guard, and every
\* step in which the manager task moves from one suspension point to another
\* starts and ends without one
C34_GuardsHeldForOneReadOrUpdate ==
    /\ [](\A h \in LockHolders :
            /\ Cardinality(Held(h)) <= 1
            /\ Held(h) # {} <=> guards.at[h] \in JustLocked \cup BodyDone)
    /\ [](\A name \in Locks : guards[name] \in LockHolders \cup {"none"})
    /\ [][\A h \in LockHolders :
            guards'.at[h] # guards.at[h] =>
                /\ guards.at[h] \in JustLocked =>
                      /\ guards'.at[h] \in BodyDone
                      /\ Held(h) = {name \in Locks : guards'[name] = h}
                /\ guards.at[h] \in BodyDone =>
                      {name \in Locks : guards'[name] = h} = {}]_vars
    /\ [][mgr'[0].pc # mgr[0].pc =>
            /\ Held("manager") = {}
            /\ {name \in Locks : guards'[name] = "manager"} = {}]_vars
    /\ [](guards.at["manager"] = "rest" => Held("manager") = {})

\* a get_wayland_shortcuts call holds the cache's guard while the manager,
\* between two inserts of a grant, holds none: one trigger is stored, the
\* other is to store, the ready flag is not set yet
C34_Witness ==
    /\ guards.wayland = "query"
    /\ guards.at["query"] = "locked"
    /\ guards.at["manager"] = "store"
    /\ mgr[0].pc = "bind_wait"
    /\ Cardinality(guards.todo) = 1
    /\ DOMAIN wl_state.triggers # {}
    /\ ~wl_state.ready

\* C35: when configure_shortcuts has returned an error that is not
\* RequiresVersion, the manager's next step answers the command with that
\* error and is back in its loop: since it took the command it has closed no
\* session, created none and issued no bind, and the step changes neither its
\* session handle, the cache, the broker's sessions nor what was published
C35_ConfigureErrorOnlyAnswered ==
    /\ [][\A m \in Callers :
            (/\ mgr[m].pc = "configured"
             /\ mgr[m].cfg_result = "err"
             /\ mgr'[m].pc # "configured") =>
                /\ reply'[mgr[m].cur].values = Append(reply[mgr[m].cur].values, "err")
                /\ \A r \in Requesters \ {mgr[m].cur} : reply'[r] = reply[r]
                /\ mgr'[m].pc = "loop"
                /\ mgr'[m].session = mgr[m].session
                /\ mgr'[m].created = mgr[m].created
                /\ mgr'[m].bound = mgr[m].bound
                /\ mgr'[m].inbox = mgr[m].inbox
                /\ mgr[m].ops = [closes |-> 0, creates |-> 0, binds |-> 0]
                /\ wl_state' = wl_state
                /\ broker' = broker
                /\ emitted' = emitted]_vars
    /\ [](\A m \in Callers :
            mgr[m].pc \in {"configure", "configured"} =>
                /\ mgr[m].ops = [closes |-> 0, creates |-> 0, binds |-> 0]
                /\ mgr[m].new_session = 0
                /\ mgr[m].cfg_result = "err" => mgr[m].pc = "configured")

\* the first request was answered with the error, the manager still has the
\* session of its startup bind and the cache of it, and it has taken the second
\* request from its queue
C35_Witness ==
    /\ caller[1].result = "err"
    /\ reply[1].values = <<"err">>
    /\ mgr[0].pc = "configure"
    /\ mgr[0].cur = 2
    /\ mgr[0].session = 1
    /\ mgr[0].created = 1
    /\ broker.closed = {}
    /\ wl_state.ready

\* C36: for each id, the calls dispatched to its action alternate start, stop,
\* start, .. beginning with start, whatever the Press and Release events and
\* the changes of the mode flag: a call to the id's action is never the same
\* as the previous call to it, and the first one is a start
C36_CallsAlternatePerId ==
    [][\A id \in ACTION_MAP :
          (calls'.n = calls.n + 1 /\ calls'.last.id = id) =>
              /\ calls'.last.op # calls.by_id[id]
              /\ calls.by_id[id] = "none" => calls'.last.op = "start"]_vars

\* the alternation as long as the mode flag has not changed since the id's
\* previous call: in toggle mode every call of an id differs from its
\* previous one
AlternatesInToggleMode ==
    [][\A id \in ACTION_MAP :
          (/\ calls'.n = calls.n + 1 /\ calls'.last.id = id
           /\ events'.toggle_only) =>
              /\ calls'.last.op # calls.by_id[id]
              /\ calls.by_id[id] = "none" => calls'.last.op = "start"]_vars

\* this step publishes the status "ready"
PublishesReady ==
    /\ emitted' # emitted
    /\ \E i \in DOMAIN emitted'.last : emitted'.last[i] = Status("ready")

\* C37: when the status "ready" is published the ready flag of the cache is
\* true, so that get_wayland_shortcuts, called on a Wayland session from then
\* on, returns the cached triggers and not the empty list
C37_ReadyStatusImpliesReadyFlag ==
    /\ [][PublishesReady =>
            /\ wl_state'.ready
            /\ get_wayland_shortcuts' = shortcut_infos(wl_state'.triggers)]_vars
    /\ [](emitted.n > 0 /\ emitted.last[Len(emitted.last)] = Status("ready")
            => wl_state.ready)

\* the status "ready" published together with the snapshot of a bind comes
\* with the ready flag set, and the flag, once set, stays
ReadyFlagSetByBind ==
    /\ [][(PublishesReady /\ emitted'.last[1].event = "wayland-shortcuts-ready") =>
            /\ wl_state'.ready
            /\ get_wayland_shortcuts' = shortcut_infos(wl_state'.triggers)]_vars
    /\ [][wl_state.ready => wl_state'.ready]_vars

\* this step is a change_binding call on the Local backend for a stored id
LocalChange ==
    /\ last_local'.n = last_local.n + 1
    /\ last_local'.op = "change"
    /\ last_local'.id \in DOMAIN bindings

\* C38: a change_binding call that returns a failure leaves the id's trigger
\* in the store as it was and, on the Local backend, leaves the callback
\* installed for the accelerator of that trigger; and every callback installed
\* is installed for the accelerator of its id's stored trigger
C38_FailedChangeKeepsBinding ==
    /\ [][(LocalChange /\ last_local'.result # "ok") =>
            LET id == last_local'.id
            IN  /\ bindings'[id] = bindings[id]
                /\ \A reg \in registered :
                      (reg.id = id /\ reg.acc = parse_shortcut(bindings[id]))
                          => reg \in registered']_vars
    /\ [](\A reg \in registered : reg.acc = parse_shortcut(bindings[reg.id]))

\* a change_binding call that fails in validation or finds no binding changes
\* neither the store nor a registration, and one that returns success leaves
\* the id's callback installed for the accelerator of the trigger it stored
FailedBeforeStoreKeepsBinding ==
    /\ [][(/\ last_local'.n = last_local.n + 1
           /\ last_local'.op = "change"
           /\ last_local'.result \in {"not_found", "invalid"}) =>
              /\ bindings' = bindings
              /\ registered' = registered]_vars
    /\ [][(LocalChange /\ last_local'.result = "ok") =>
            LET id == last_local'.id
            IN  /\ bindings'[id] = last_local'.trigger
                /\ \E reg \in registered' :
                      reg.id = id /\ reg.acc = parse_shortcut(bindings'[id])
                /\ \A reg \in registered' :
                      reg.id = id => reg.acc = parse_shortcut(bindings'[id])]_vars

\* C39: a manager task that has reported success on the startup signal
\* subscribes to the event streams and enters its loop: its step after the
\* report takes it into the loop, and a task that has returned with an error
\* has never reported success, its error being the connect, create_session or
\* initial bind failure it reported
C39_SuccessReportedThenLoop ==
    /\ [][\A m \in Callers :
            (mgr[m].pc = "subscribe" /\ mgr'[m].pc # "subscribe") =>
                mgr'[m].pc = "loop"]_vars
    /\ [](\A m \in Callers :
            mgr[m].pc = "failed" => mgr[m].init = <<"err">>)

\* the ways into the failed state: from connect, create_session or the initial
\* bind with the error reported on the startup signal, or from the
\* subscription with success reported before; never from the loop or from the
\* handling of a command
FailedFromStartupOrSubscription ==
    /\ [][\A m \in Callers :
            (mgr[m].pc # "failed" /\ mgr'[m].pc = "failed") =>
                \/ /\ mgr[m].pc \in {"connect", "create_session", "bind_call", "bind_wait"}
                   /\ mgr[m].init = <<>>
                   /\ mgr'[m].init = <<"err">>
                \/ /\ mgr[m].pc = "subscribe"
                   /\ mgr'[m].init = <<"ok">>]_vars
    /\ [](\A m \in Callers :
            mgr[m].pc \in {"subscribe", "loop", "configure", "configured"}
                => mgr[m].init = <<"ok">>)

\* the outcomes request_configure returns to its caller
RequestOutcomes ==
    {"ok", "err", "no_signal", "failed_to_start", "not_responding", "response_lost"}

\* C40: every request_configure call that was entered returns an outcome to
\* its caller: a send to a manager that has returned gives "Manager task not
\* responding", a command dropped with the manager's queue gives "Response
\* lost", and no caller stays in the call for ever; nor does a caller of
\* init_wayland_shortcuts, which a request_configure that finds no sender
\* awaits
C40_EveryRequestReturns ==
    /\ \A r \in Requesters :
          (caller[r].pc # "idle") ~> (caller[r].pc = "done")
    /\ (caller[0].pc = "await_init") ~> (caller[0].pc = "done")
    /\ [](\A r \in Requesters :
            caller[r].pc = "done" => caller[r].result \in RequestOutcomes)
    /\ [][\A r \in Requesters :
            (/\ caller[r].pc = "send" /\ caller'[r].pc # "send"
             /\ mgr[caller[r].tx].pc \in Terminated) =>
                /\ caller'[r].pc = "done"
                /\ caller'[r].result = "not_responding"]_vars
    /\ [][\A r \in Requesters :
            (/\ caller[r].pc = "await_resp" /\ caller'[r].pc # "await_resp"
             /\ reply[r].values = <<>>) =>
                /\ caller'[r].pc = "done"
                /\ caller'[r].result = "response_lost"
                /\ reply[r].taken = 0
                /\ mgr[caller[r].tx].pc \in Terminated]_vars

\* one request found the manager returned when it sent, the other had its
\* command in the queue when the manager returned: both have their error
C40_Witness ==
    /\ \E r \in Requesters : caller[r].pc = "done" /\ caller[r].result = "not_responding"
    /\ \E r \in Requesters : caller[r].pc = "done" /\ caller[r].result = "response_lost"
    /\ mgr[0].pc = "failed"

====
